---- MODULE Spec2Model ----
(***************************************************************************)
(* API-key authentication core of climateguard-backend:                    *)
(*   app/auth.py              key format, hashing, verification            *)
(*   app/dependencies.py      get_current_user / require_auth              *)
(*   app/v2/routers/auth.py   register, users/me, regenerate-key           *)
(* Each HTTP request is a process holding its own database session; a      *)
(* request takes one step per database round trip (await), so requests     *)
(* interleave exactly where the event loop can switch between them.        *)
(***************************************************************************)
EXTENDS Integers, Sequences, FiniteSets, TLC

(* ------------------------------ bounds --------------------------------- *)
\* number of credential generations (generate_api_key_with_hash calls)
MaxGen == 3
MaxDevices == 2
MaxMetrics == 2
(* ------------------------- program constants --------------------------- *)
KeyLen == 32
KeyBytes == 32
KeySlice == 32
SaltBytes == 16
MinDeviceId == 1
MaxDeviceId == 1000000
MinLimit == 1
MaxLimit == 200
DefaultLimit == 100
MinPage == 1
MaxLatitude == 90
MinUsernameLen == 3

\* request slots; Serial are the slots that run requests one after another
Reqs == {1, 2}
Serial == {1}
UserIds == {1, 2}
\* values datetime.utcnow() can return
Times == {1}

(* ------------------------------ strings -------------------------------- *)
\* a string is a sequence of one-character strings
\* the alphabet without "-" and "_"
valid_chars_Alnum ==
    {"a","b","c","d","e","f","g","h","i","j","k","l","m",
     "n","o","p","q","r","s","t","u","v","w","x","y","z",
     "A","B","C","D","E","F","G","H","I","J","K","L","M",
     "N","O","P","Q","R","S","T","U","V","W","X","Y","Z",
     "0","1","2","3","4","5","6","7","8","9"}

valid_chars ==
    {"a","b","c","d","e","f","g","h","i","j","k","l","m",
     "n","o","p","q","r","s","t","u","v","w","x","y","z",
     "A","B","C","D","E","F","G","H","I","J","K","L","M",
     "N","O","P","Q","R","S","T","U","V","W","X","Y","Z",
     "0","1","2","3","4","5","6","7","8","9","-","_"}

Whitespace == {" "}

RECURSIVE lstrip(_)
lstrip(s) == IF s # <<>> /\ Head(s) \in Whitespace THEN lstrip(Tail(s)) ELSE s

RECURSIVE rstrip(_)
rstrip(s) ==
    IF s # <<>> /\ s[Len(s)] \in Whitespace
    THEN rstrip(SubSeq(s, 1, Len(s) - 1)) ELSE s

strip(s) == rstrip(lstrip(s))

Fill(n, first, rest) == [i \in 1..n |-> IF i = 1 THEN first ELSE rest]

(* ------------------------------ app/auth.py ---------------------------- *)
\* secrets.token_urlsafe: the n-th draw of the random source is a value no
\* earlier draw returned (192 resp. 128 bits of entropy)
KeyHeads == <<"A", "b", "7", "-", "_", "Z", "q", "3">>
SaltHeads == <<"s", "t", "u", "v", "w", "x", "y", "z">>

\* secrets.token_urlsafe(nbytes): nbytes random bytes in URL-safe base64
\* without padding, ceil(4 * nbytes / 3) characters
token_urlsafe(nbytes, head) == Fill((4 * nbytes + 2) \div 3, head, "0")

generate_api_key(n) == SubSeq(token_urlsafe(KeyBytes, KeyHeads[n]), 1, KeySlice)

generate_salt(n) == token_urlsafe(SaltBytes, SaltHeads[n])

\* PBKDF2-HMAC-SHA256 hex digest: a deterministic function of (key, salt)
\* without collisions
\* a digest that depends on the salt only
hash_api_key_SaltOnly(api_key, salt) == <<"pbkdf2", <<>>, salt>>

hash_api_key(api_key, salt) == <<"pbkdf2", api_key, salt>>

compare_digest(a, b) == a = b

\* verify_api_key comparing the salt part of the stored hash only
verify_api_key_AnyKey(api_key, stored_hash, salt) ==
    stored_hash # <<>> /\ stored_hash[3] = salt

verify_api_key(api_key, stored_hash, salt) ==
    compare_digest(hash_api_key(api_key, salt), stored_hash)

generate_api_key_with_hash(n) ==
    LET api_key == generate_api_key(n)
        salt == generate_salt(n)
    IN  [api_key |-> api_key, key_hash |-> hash_api_key(api_key, salt),
         salt |-> salt]

\* is_valid_api_key_format without the length check
is_valid_api_key_format_NoLength(api_key) ==
    IF api_key = <<>> THEN FALSE
    ELSE \A i \in 1..Len(api_key) : api_key[i] \in valid_chars

is_valid_api_key_format(api_key) ==
    IF api_key = <<>> THEN FALSE
    ELSE IF Len(api_key) # KeyLen THEN FALSE
    ELSE \A i \in 1..Len(api_key) : api_key[i] \in valid_chars

(* ------------------------------ values --------------------------------- *)
NoHash == <<>>
NoSalt == <<>>
NoKey == <<>>
NoEmail == <<>>
NoTime == 0

\* a request header: absent, or present with a (possibly empty) value
Absent == [present |-> FALSE, val |-> <<>>]
Hdr(v) == [present |-> TRUE, val |-> v]

\* Python truthiness of Optional[str]
Truthy(h) == h.present /\ h.val # <<>>

\* keys a client can present besides the ones the service issued
UnknownKey == Fill(KeyLen, "u", "0")
ShortKey == Fill(KeyLen - 1, "A", "0")
LongKey == Fill(KeyLen + 1, "A", "0")
BadCharKey == Fill(KeyLen, "!", "0")
JunkKeys == {UnknownKey, ShortKey, LongKey, BadCharKey}

Ali == <<"a", "l", "i">>
Bob == <<"b", "o", "b">>
Eve == <<"e", "v", "e">>
UserName(u) == IF u = 1 THEN Ali ELSE Bob
BootEmail == <<"e", "0">>
NewEmail == <<"e", "1">>

\* usernames a client can send to /auth/register
RegUsernames == {Ali, <<" ">> \o Ali \o <<" ">>, Bob, Eve,
                 <<"a", "b">>, <<" ", "a", " ">>, <<>>}
RegEmails == {NoEmail, NewEmail}

(* ----------------------------- models.User ----------------------------- *)
\* row as inserted by bootstrap_test_users.create_test_user
NewUser(u) ==
    [user_id |-> u, username |-> UserName(u), email |-> BootEmail,
     api_key_hash |-> NoHash, api_key_salt |-> NoSalt,
     is_active |-> FALSE, is_registered |-> FALSE,
     registered_at |-> NoTime, last_login |-> NoTime]

NoUser == [NewUser(0) EXCEPT !.username = <<>>, !.email = NoEmail]

\* the key and the salt bootstrap_test_users registers the test user with
TestKey == Fill(KeyLen, "T", "0")
TestSalt == token_urlsafe(SaltBytes, "S")

\* the user table after bootstrap_test_users.main: the test user registered
RegisteredTestUser ==
    [NewUser(1) EXCEPT !.api_key_hash = hash_api_key(TestKey, TestSalt),
                       !.api_key_salt = TestSalt,
                       !.is_active = TRUE,
                       !.is_registered = TRUE,
                       !.registered_at = 1]

(* ------------- models.Device, Tag, DeviceTagLink, SensorMetric --------- *)
\* None of an Optional[str] column, of an Optional[float] column
NoName == <<>>
NoComment == <<>>
Null == [null |-> TRUE, n |-> 0]
Num(x) == [null |-> FALSE, n |-> x]

NoDevice ==
    [device_id |-> 0, name |-> NoName, latitude |-> Null,
     created_at |-> NoTime, comment |-> NoComment]

\* a field of a request body: absent from the JSON object, or present
Unset == [set |-> FALSE, val |-> <<>>]
UnsetNum == [set |-> FALSE, val |-> Null]
Given(v) == [set |-> TRUE, val |-> v]

\* DeviceCreate, DeviceUpdate and CreateMetricRequest as one record
NoBody ==
    [name |-> Unset, comment |-> Unset, latitude |-> UnsetNum,
     tags |-> Unset, device_name |-> Unset, sensor_messages |-> Unset,
     timestamp_server |-> UnsetNum]

\* the query parameters of GET /devices and GET /metrics with their defaults
NoQuery ==
    [limit |-> DefaultLimit, page |-> MinPage, name |-> NoName,
     tag_name |-> <<>>, min_date |-> <<>>, max_date |-> <<>>]

NoPayload == [device_id |-> 0, body |-> NoBody, query |-> NoQuery]

\* schemas.TagRead built as TagRead(id=, category=, tag=)
TagRead(tag) == [id |-> tag.id, category |-> tag.category, tag |-> tag.tag]

\* schemas.DeviceRead as the four endpoints of devices.py build it: the
\* keyword comment is not passed, so the field takes its default None
DeviceRead(device, tag_reads) ==
    [device_id |-> device.device_id, name |-> device.name,
     latitude |-> device.latitude, created_at |-> device.created_at,
     tags |-> tag_reads, comment |-> NoComment]

NoDeviceRead == DeviceRead(NoDevice, <<>>)

NoPagination ==
    [total_count |-> 0, page |-> 0, limit |-> 0, total_pages |-> 0,
     has_next |-> FALSE, has_prev |-> FALSE]

NoMetricRead == [id |-> 0, device_id |-> 0, sensor_messages |-> <<>>]

N1 == <<"n", "1">>
N2 == <<"N", "2">>
C1 == <<"c", "1">>
C2 == <<"c", "2">>
T1 == <<"t", "1">>
T2 == <<"t", "2">>
G1 == <<"g", "1">>

(* ------------------------------ state ---------------------------------- *)
VARIABLES
    users,      \* table "user": user_id -> committed row
    req,        \* request slot -> the request in flight
    ngen,       \* draws taken from the random source
    history,    \* committed credential writes, oldest first
    call,       \* a direct call of a function of app/auth.py
    devices,    \* table "device": the set of committed rows
    tags,       \* table "tag"
    links,      \* table "devicetaglink"
    metrics,    \* table "sensormetric"
    messages,   \* table "sensormessage"
    seq         \* the last value each primary-key sequence handed out

vars == <<users, req, ngen, history, call,
          devices, tags, links, metrics, messages, seq>>

\* the tables get_current_user and the auth router never touch
dataVars == <<devices, tags, links, metrics, messages, seq>>

\* the variables the request handlers of the API never touch
pureVars == <<call>>

NoResp == [status |-> 0, detail |-> "", error_code |-> "", user_id |-> 0,
           api_key |-> NoKey, device |-> NoDeviceRead, data |-> <<>>,
           pagination |-> NoPagination, metric |-> NoMetricRead]

NoCall ==
    [pc |-> "none", fn |-> "none", api_key |-> NoKey, other_key |-> NoKey,
     salt |-> NoSalt, stored_hash |-> NoHash, result |-> FALSE]

Idle ==
    [pc |-> "idle", kind |-> "none",
     x_api_key |-> Absent, authorization |-> Absent,
     username |-> <<>>, email |-> NoEmail,
     api_key |-> NoKey, fetched |-> FALSE, users |-> <<>>,
     checked |-> <<>>, user |-> NoUser, fetch_ver |-> 0, login_ver |-> 0,
     resp |-> NoResp,
     device_id |-> 0, body |-> NoBody, query |-> NoQuery, device |-> NoDevice]

\* the device and metric tables of a fresh database
NoData ==
    /\ devices = {}
    /\ tags = {}
    /\ links = {}
    /\ metrics = {}
    /\ messages = {}
    /\ seq = [device |-> 0, tag |-> 0, metric |-> 0, message |-> 0]

Init ==
    /\ users = [u \in UserIds |-> NewUser(u)]
    /\ req = [r \in Reqs |-> Idle]
    /\ ngen = 0
    /\ history = <<>>
    /\ call = NoCall
    /\ NoData

\* the service after bootstrap_test_users: the test user holds TestKey
InitApi ==
    /\ users = [u \in UserIds |->
                   IF u = 1 THEN RegisteredTestUser ELSE NewUser(u)]
    /\ req = [r \in Reqs |-> Idle]
    /\ ngen = 0
    /\ history = <<[user_id |-> 1, api_key |-> TestKey, op |-> "register"]>>
    /\ call = NoCall
    /\ NoData

(* --------------------------- database session ------------------------- *)
\* a commit that writes every attribute of the object, changed or not
Flush_WholeRow(row, loaded, new) == new

\* a commit that writes the changed attributes and, with them, the
\* credential columns as the session loaded them
Flush_WithCredential(row, loaded, new) ==
    [f \in DOMAIN row |->
        IF new[f] # loaded[f] \/ f \in {"api_key_hash", "api_key_salt"}
        THEN new[f] ELSE row[f]]

\* session.commit() of one changed object: a single UPDATE that sets the
\* attributes whose value differs from the one the session loaded
Flush(row, loaded, new) ==
    [f \in DOMAIN row |-> IF new[f] # loaded[f] THEN new[f] ELSE row[f]]

\* the orders in which a query without ORDER BY can return the rows of S
Orders(S) ==
    {o \in [1..Cardinality(S) -> S] :
        \A i, j \in 1..Cardinality(S) : i # j => o[i] # o[j]}

Reply(status, detail) == [NoResp EXCEPT !.status = status, !.detail = detail]

(* --------------------------- app/dependencies.py ----------------------- *)
\* the three HTTPException(401) responses of get_current_user
MissingKeyReply == Reply(401, "Authentication required")

InvalidFormatReply == Reply(401, "Invalid API key format")

InvalidKeyReply == Reply(401, "Invalid API key")

\* the key extraction with the Authorization header tried first
ExtractKey_BearerFirst(x_api_key, authorization) ==
    IF Truthy(authorization) THEN authorization.val
    ELSE IF Truthy(x_api_key) THEN x_api_key.val
    ELSE NoKey

\* the key extraction taking an empty X-API-Key header for a key
ExtractKey_EmptyIsKey(x_api_key, authorization) ==
    IF x_api_key.present THEN x_api_key.val
    ELSE IF Truthy(authorization) THEN authorization.val
    ELSE NoKey

ExtractKey(x_api_key, authorization) ==
    IF Truthy(x_api_key) THEN x_api_key.val
    ELSE IF Truthy(authorization) THEN authorization.val
    ELSE NoKey

\* select(User).where(api_key_hash IS NOT NULL, is_active, is_registered)
Candidates(tbl) ==
    {u \in DOMAIN tbl : /\ tbl[u].api_key_hash # NoHash
                        /\ tbl[u].is_active
                        /\ tbl[u].is_registered}

\* the test of the scan loop without the call of verify_api_key
Matches_NoVerify(api_key, row) ==
    /\ row.api_key_hash # NoHash
    /\ row.api_key_salt # NoSalt

\* the test of the scan loop on one fetched row
Matches(api_key, row) ==
    /\ row.api_key_hash # NoHash
    /\ row.api_key_salt # NoSalt
    /\ verify_api_key(api_key, row.api_key_hash, row.api_key_salt)

\* index of the row at which the scan loop returns, 0 when it runs through
FirstMatch(api_key, rows) ==
    LET M == {i \in 1..Len(rows) : Matches(api_key, rows[i])}
    IN  IF M = {} THEN 0 ELSE CHOOSE i \in M : \A j \in M : i <= j

\* the rows verify_api_key was called on when the loop ran over rows[1..n]
Verified(rows, n) ==
    LET pick(i) == rows[i].api_key_hash # NoHash /\ rows[i].api_key_salt # NoSalt
        F[i \in 0..n] ==
            IF i = 0 THEN <<>>
            ELSE IF pick(i) THEN Append(F[i - 1], rows[i].user_id) ELSE F[i - 1]
    IN  F[n]

\* require_auth: the status it raises for the authenticated user, 0 if none
require_auth(current_user) ==
    IF ~current_user.is_active THEN 403
    ELSE IF ~current_user.is_registered THEN 403
    ELSE 0

\* keys a client can put into a header: junk and every key generated so far
Presentable == JunkKeys \cup {generate_api_key(n) : n \in 1..ngen}

Headers == {Absent, Hdr(<<>>)} \cup {Hdr(k) : k \in Presentable}

\* only the endpoints of the auth router declared with Depends(require_auth)
NeedsAuth_AuthRouterOnly(kind) == kind \in {"me", "regen"}

\* the endpoints declared with current_user = Depends(require_auth)
NeedsAuth(kind) ==
    kind \in {"me", "regen", "create_device", "update_device",
              "delete_device", "create_metric"}

\* a request arrives and its dependencies are solved: for an endpoint that
\* depends on require_auth, get_current_user runs up to and including the
\* candidate query; any other endpoint goes on to its parameters
Receive(r, kind, x_api_key, authorization, payload) ==
    /\ req[r].pc = "idle"
    /\ LET api_key == IF NeedsAuth(kind)
                      THEN ExtractKey(x_api_key, authorization) ELSE NoKey
           q == [req[r] EXCEPT !.kind = kind, !.x_api_key = x_api_key,
                               !.authorization = authorization,
                               !.api_key = api_key,
                               !.device_id = payload.device_id,
                               !.body = payload.body,
                               !.query = payload.query]
       IN  IF ~NeedsAuth(kind)
           THEN req' = [req EXCEPT ![r] = [q EXCEPT !.pc = "endpoint"]]
           ELSE IF api_key = NoKey
           THEN req' = [req EXCEPT ![r] =
                   [q EXCEPT !.pc = "done",
                             !.resp = MissingKeyReply]]
           ELSE IF ~is_valid_api_key_format(api_key)
           THEN req' = [req EXCEPT ![r] =
                   [q EXCEPT !.pc = "done",
                             !.resp = InvalidFormatReply]]
           ELSE \E o \in Orders(Candidates(users)) :
                   req' = [req EXCEPT ![r] =
                       [q EXCEPT !.pc = "scan", !.fetched = TRUE,
                                 !.users = [i \in DOMAIN o |-> users[o[i]]],
                                 !.fetch_ver = Len(history)]]
    /\ UNCHANGED <<users, ngen, history, pureVars, dataVars>>

\* get_current_user up to and including the candidate query, for the
\* endpoints of the auth router
Authenticate(r, kind, x_api_key, authorization) ==
    Receive(r, kind, x_api_key, authorization, NoPayload)

\* the endpoint echoing the presented key in the body of /auth/users/me
Authenticated_EchoKey(q, user) ==
    IF require_auth(user) # 0
    THEN [q EXCEPT !.pc = "done", !.user = user,
                   !.resp = Reply(require_auth(user), "Access denied")]
    ELSE IF q.kind = "regen"
    THEN [q EXCEPT !.pc = "regen", !.user = user]
    ELSE IF q.kind = "me"
    THEN [q EXCEPT !.pc = "done", !.user = user,
                   !.resp = [Reply(200, "") EXCEPT !.user_id = user.user_id,
                                                   !.api_key = q.api_key]]
    ELSE [q EXCEPT !.pc = "endpoint", !.user = user]

\* what the endpoint does with the user get_current_user returned
Authenticated(q, user) ==
    IF require_auth(user) # 0
    THEN [q EXCEPT !.pc = "done", !.user = user,
                   !.resp = Reply(require_auth(user), "Access denied")]
    ELSE IF q.kind = "regen"
    THEN [q EXCEPT !.pc = "regen", !.user = user]
    ELSE IF q.kind = "me"
    THEN [q EXCEPT !.pc = "done", !.user = user,
                   !.resp = [Reply(200, "") EXCEPT !.user_id = user.user_id]]
    ELSE [q EXCEPT !.pc = "endpoint", !.user = user]

\* the scan loop runs through without a match
ScanNoMatch(r) ==
    /\ req[r].pc = "scan"
    /\ FirstMatch(req[r].api_key, req[r].users) = 0
    /\ req' = [req EXCEPT ![r] =
           [@ EXCEPT !.pc = "done",
                     !.checked = Verified(req[r].users, Len(req[r].users)),
                     !.resp = InvalidKeyReply]]
    /\ UNCHANGED <<users, ngen, history, pureVars, dataVars>>

\* the scan loop finds a match and commits last_login
ScanMatch(r) ==
    /\ req[r].pc = "scan"
    /\ LET i == FirstMatch(req[r].api_key, req[r].users)
       IN  /\ i # 0
           /\ \E t \in Times :
                LET row == req[r].users[i]
                    user == [row EXCEPT !.last_login = t]
                    q == [req[r] EXCEPT !.checked = Verified(req[r].users, i),
                                        !.login_ver = Len(history)]
                IN  /\ users' = [users EXCEPT ![row.user_id] = Flush(@, row, user)]
                    /\ req' = [req EXCEPT ![r] = Authenticated(q, user)]
    /\ UNCHANGED <<ngen, history, pureVars, dataVars>>

\* the scan loop finds a match and the commit of last_login raises
ScanMatchCommitFails(r) ==
    /\ req[r].pc = "scan"
    /\ LET i == FirstMatch(req[r].api_key, req[r].users)
       IN  /\ i # 0
           /\ req' = [req EXCEPT ![r] =
                  [@ EXCEPT !.pc = "done",
                            !.checked = Verified(req[r].users, i),
                            !.resp = Reply(500, "Internal Server Error")]]
    /\ UNCHANGED <<users, ngen, history, pureVars, dataVars>>

(* --------------------------- v2/routers/auth.py ------------------------ *)
\* the user query falling back to some row when the username is unknown
find_user_Fallback(tbl, username) ==
    LET found == {u \in DOMAIN tbl : tbl[u].username = username}
    IN  IF found = {} THEN tbl[CHOOSE u \in DOMAIN tbl : TRUE]
        ELSE tbl[CHOOSE u \in found : TRUE]

\* select(User).where(User.username == username), scalar_one_or_none()
find_user(tbl, username) ==
    LET found == {u \in DOMAIN tbl : tbl[u].username = username}
    IN  IF found = {} THEN NoUser ELSE tbl[CHOOSE u \in found : TRUE]

\* register_user up to and including the user query
RegisterLookup(r, username, email) ==
    /\ req[r].pc = "idle"
    /\ LET q == [req[r] EXCEPT !.kind = "register", !.username = username,
                               !.email = email]
       IN  IF username = <<>> \/ Len(strip(username)) < MinUsernameLen
           THEN req' = [req EXCEPT ![r] =
                   [q EXCEPT !.pc = "done",
                             !.resp = [Reply(422, "Username must be at least 3 characters long and not empty.")
                                          EXCEPT !.error_code = "INVALID_USERNAME_FORMAT"]]]
           ELSE req' = [req EXCEPT ![r] =
                   [q EXCEPT !.pc = "register", !.fetched = TRUE,
                             !.user = find_user(users, strip(username)),
                             !.fetch_ver = Len(history)]]
    /\ UNCHANGED <<users, ngen, history, pureVars, dataVars>>

\* register_user: no row for the username
RegisterNotFound(r) ==
    /\ req[r].pc = "register"
    /\ req[r].user = NoUser
    /\ req' = [req EXCEPT ![r] =
           [@ EXCEPT !.pc = "done",
                     !.resp = [Reply(404, "not found") EXCEPT
                                  !.error_code = "USERNAME_NOT_FOUND"]]]
    /\ UNCHANGED <<users, ngen, history, pureVars, dataVars>>

\* the already-registered test never firing
already_registered_Never(user) == FALSE

\* register_user: "if user.is_registered"
already_registered(user) == user.is_registered

\* register_user: the row is already registered
RegisterConflict(r) ==
    /\ req[r].pc = "register"
    /\ req[r].user # NoUser
    /\ already_registered(req[r].user)
    /\ req' = [req EXCEPT ![r] =
           [@ EXCEPT !.pc = "done",
                     !.resp = [Reply(409, "already registered") EXCEPT
                                  !.error_code = "USER_ALREADY_REGISTERED"]]]
    /\ UNCHANGED <<users, ngen, history, pureVars, dataVars>>

\* the assignments of register_user without the one of api_key_salt
RegisterUpdate_NoSalt(user, email, cred, now) ==
    [user EXCEPT !.email = IF email # NoEmail THEN email ELSE user.email,
                 !.api_key_hash = cred.key_hash,
                 !.is_active = TRUE,
                 !.is_registered = TRUE,
                 !.registered_at = now]

\* the assignments of register_user without the one of is_active
RegisterUpdate_NotActive(user, email, cred, now) ==
    [user EXCEPT !.email = IF email # NoEmail THEN email ELSE user.email,
                 !.api_key_hash = cred.key_hash,
                 !.api_key_salt = cred.salt,
                 !.is_registered = TRUE,
                 !.registered_at = now]

\* the attribute assignments of register_user
RegisterUpdate(user, email, cred, now) ==
    [user EXCEPT !.email = IF email # NoEmail THEN email ELSE user.email,
                 !.api_key_hash = cred.key_hash,
                 !.api_key_salt = cred.salt,
                 !.is_active = TRUE,
                 !.is_registered = TRUE,
                 !.registered_at = now]

\* register_user: generate the credential, commit, refresh, answer 201
RegisterCommit(r) ==
    /\ req[r].pc = "register"
    /\ req[r].user # NoUser
    /\ ~already_registered(req[r].user)
    /\ ngen < MaxGen
    /\ \E now \in Times :
         LET user == req[r].user
             cred == generate_api_key_with_hash(ngen + 1)
             new == RegisterUpdate(user, req[r].email, cred, now)
             row == Flush(users[user.user_id], user, new)
         IN  /\ users' = [users EXCEPT ![user.user_id] = row]
             /\ history' = Append(history,
                    [user_id |-> user.user_id, api_key |-> cred.api_key,
                     op |-> "register"])
             /\ req' = [req EXCEPT ![r] =
                    [@ EXCEPT !.pc = "done", !.user = row,
                              !.resp = [Reply(201, "Registration complete") EXCEPT
                                           !.user_id = row.user_id,
                                           !.api_key = cred.api_key]]]
    /\ ngen' = ngen + 1
    /\ UNCHANGED <<pureVars, dataVars>>

\* register_user: the random source or the commit raises
RegisterFails(r) ==
    /\ req[r].pc = "register"
    /\ req[r].user # NoUser
    /\ ~already_registered(req[r].user)
    /\ ngen < MaxGen
    /\ req' = [req EXCEPT ![r] =
           [@ EXCEPT !.pc = "done",
                     !.resp = Reply(500, "Internal Server Error")]]
    /\ ngen' = ngen + 1
    /\ UNCHANGED <<users, history, pureVars, dataVars>>

\* the assignments of regenerate_api_key without the one of api_key_salt
RegenerateUpdate_HashOnly(current_user, cred) ==
    [current_user EXCEPT !.api_key_hash = cred.key_hash]

\* the attribute assignments of regenerate_api_key
RegenerateUpdate(current_user, cred) ==
    [current_user EXCEPT !.api_key_hash = cred.key_hash,
                         !.api_key_salt = cred.salt]

\* regenerate_api_key: generate the credential, commit, answer 200
RegenerateCommit(r) ==
    /\ req[r].pc = "regen"
    /\ ngen < MaxGen
    /\ LET current_user == req[r].user
           cred == generate_api_key_with_hash(ngen + 1)
           new == RegenerateUpdate(current_user, cred)
       IN  /\ users' = [users EXCEPT ![current_user.user_id] =
                           Flush(@, current_user, new)]
           /\ history' = Append(history,
                  [user_id |-> current_user.user_id, api_key |-> cred.api_key,
                   op |-> "regen"])
           /\ req' = [req EXCEPT ![r] =
                  [@ EXCEPT !.pc = "done", !.user = new,
                            !.resp = [Reply(200, "API key regenerated") EXCEPT
                                         !.user_id = current_user.user_id,
                                         !.api_key = cred.api_key]]]
    /\ ngen' = ngen + 1
    /\ UNCHANGED <<pureVars, dataVars>>

\* regenerate_api_key: the random source or the commit raises
RegenerateFails(r) ==
    /\ req[r].pc = "regen"
    /\ ngen < MaxGen
    /\ req' = [req EXCEPT ![r] =
           [@ EXCEPT !.pc = "done",
                     !.resp = Reply(500, "Internal Server Error")]]
    /\ ngen' = ngen + 1
    /\ UNCHANGED <<users, history, pureVars, dataVars>>

\* the response is sent and the request's session is closed
Respond(r) ==
    /\ req[r].pc = "done"
    /\ req' = [req EXCEPT ![r] = Idle]
    /\ UNCHANGED <<users, ngen, history, pureVars, dataVars>>

(* -------------------- request parameters and bodies -------------------- *)
InRange(lo, x, hi) == lo <= x /\ x <= hi

\* Field(None, ge=-90, le=90)
ValidLatitude(f) ==
    (f.set /\ ~f.val.null) => InRange(0 - MaxLatitude, f.val.n, MaxLatitude)

\* the validation of path, query and body parameters, which FastAPI reports
\* after the dependencies of the endpoint have returned
ValidRequest(q) ==
    CASE q.kind = "create_device" ->
            q.body.name.set /\ ValidLatitude(q.body.latitude)
      [] q.kind = "update_device" ->
            /\ InRange(MinDeviceId, q.device_id, MaxDeviceId)
            /\ ValidLatitude(q.body.latitude)
      [] q.kind \in {"delete_device", "get_device"} ->
            InRange(MinDeviceId, q.device_id, MaxDeviceId)
      [] q.kind \in {"get_devices", "get_metrics"} ->
            /\ InRange(MinLimit, q.query.limit, MaxLimit)
            /\ q.query.page >= MinPage
      [] q.kind = "create_metric" -> q.body.device_name.set
      [] OTHER -> TRUE

\* RequestValidationError: 422 before the endpoint function is called
Unprocessable(r) ==
    /\ req[r].pc = "endpoint"
    /\ ~ValidRequest(req[r])
    /\ req' = [req EXCEPT ![r] =
           [@ EXCEPT !.pc = "done",
                     !.resp = Reply(422, "Unprocessable Entity")]]
    /\ UNCHANGED <<users, ngen, history, pureVars, dataVars>>

(* ------------------------- v2/routers/devices.py ----------------------- *)
\* scalar_one_or_none() of a query whose result is the set S of rows
scalar_one_or_none(S) == IF S = {} THEN NoDevice ELSE CHOOSE d \in S : TRUE

UpperCase == <<"A","B","C","D","E","F","G","H","I","J","K","L","M",
               "N","O","P","Q","R","S","T","U","V","W","X","Y","Z">>
LowerCase == <<"a","b","c","d","e","f","g","h","i","j","k","l","m",
               "n","o","p","q","r","s","t","u","v","w","x","y","z">>

lower(s) ==
    [i \in 1..Len(s) |->
        IF \E k \in 1..Len(UpperCase) : UpperCase[k] = s[i]
        THEN LowerCase[CHOOSE k \in 1..Len(UpperCase) : UpperCase[k] = s[i]]
        ELSE s[i]]

\* Device.name.ilike(f"%{name}%") for a pattern without wildcards
ilike(s, name) ==
    \E i \in 0..(Len(s) - Len(name)) :
        lower(SubSeq(s, i + 1, i + Len(name))) = lower(name)

\* select(Tag).join(DeviceTagLink).where(DeviceTagLink.device_id == id)
TagsOf(device_id) ==
    {t \in tags : [device_id |-> device_id, tag_id |-> t.id] \in links}

\* the TagRead lists the tag query of a device can give, in any row order
TagReadLists(device_id) ==
    {[i \in DOMAIN o |-> TagRead(o[i])] : o \in Orders(TagsOf(device_id))}

\* the rows the filters of get_devices keep
Filtered(query) ==
    {d \in devices :
        /\ query.name # NoName => ilike(d.name, query.name)
        /\ query.tag_name # <<>> =>
              \E t \in TagsOf(d.device_id) : t.tag = query.tag_name}

\* order_by(Device.created_at.desc()): rows of one timestamp in any order
NewestFirst(S) ==
    {o \in Orders(S) :
        \A i, j \in DOMAIN o : i < j => o[i].created_at >= o[j].created_at}

\* limit(limit) without offset(offset): the first rows of a result
Page_FromStart(rows, offset, limit) ==
    [i \in 1..(IF Len(rows) < limit THEN Len(rows) ELSE limit) |-> rows[i]]

\* rows offset+1 .. offset+limit of a result
Page(rows, offset, limit) ==
    [i \in 1..(IF Len(rows) - offset < 0 THEN 0
               ELSE IF Len(rows) - offset < limit THEN Len(rows) - offset
               ELSE limit) |-> rows[offset + i]]

POST_devices(r, x_api_key, authorization, body) ==
    /\ seq.device < MaxDevices
    /\ Receive(r, "create_device", x_api_key, authorization,
               [NoPayload EXCEPT !.body = body])

PUT_device(r, x_api_key, authorization, device_id, body) ==
    Receive(r, "update_device", x_api_key, authorization,
            [NoPayload EXCEPT !.device_id = device_id, !.body = body])

DELETE_device(r, x_api_key, authorization, device_id) ==
    Receive(r, "delete_device", x_api_key, authorization,
            [NoPayload EXCEPT !.device_id = device_id])

GET_device(r, x_api_key, authorization, device_id) ==
    Receive(r, "get_device", x_api_key, authorization,
            [NoPayload EXCEPT !.device_id = device_id])

GET_devices(r, x_api_key, authorization, query) ==
    Receive(r, "get_devices", x_api_key, authorization,
            [NoPayload EXCEPT !.query = query])

POST_metrics(r, x_api_key, authorization, body) ==
    /\ seq.metric < MaxMetrics
    /\ Receive(r, "create_metric", x_api_key, authorization,
               [NoPayload EXCEPT !.body = body])

\* get_devices
get_devices(r) ==
    /\ req[r].pc = "endpoint"
    /\ req[r].kind = "get_devices"
    /\ ValidRequest(req[r])
    /\ LET limit == req[r].query.limit
           page == req[r].query.page
           found == Filtered(req[r].query)
           total_count == Cardinality(found)
           offset == (page - 1) * limit
           total_pages == (total_count + limit - 1) \div limit
       IN  \E o \in NewestFirst(found) :
           \E tr \in [found -> UNION {TagReadLists(d.device_id) : d \in found}] :
              /\ \A d \in found : tr[d] \in TagReadLists(d.device_id)
              /\ LET rows == Page(o, offset, limit)
                 IN  req' = [req EXCEPT ![r] =
                        [@ EXCEPT !.pc = "done",
                                  !.resp = [Reply(200, "") EXCEPT
                                      !.data = [i \in DOMAIN rows |->
                                                  DeviceRead(rows[i], tr[rows[i]])],
                                      !.pagination =
                                         [total_count |-> total_count,
                                          page |-> page,
                                          limit |-> limit,
                                          total_pages |-> total_pages,
                                          has_next |-> page < total_pages,
                                          has_prev |-> page > 1]]]]
    /\ UNCHANGED <<users, ngen, history, pureVars, dataVars>>

\* get_device
get_device(r) ==
    /\ req[r].pc = "endpoint"
    /\ req[r].kind = "get_device"
    /\ ValidRequest(req[r])
    /\ LET device_id == req[r].device_id
           device == scalar_one_or_none({d \in devices : d.device_id = device_id})
       IN  IF device_id < MinDeviceId \/ device_id > MaxDeviceId
           THEN req' = [req EXCEPT ![r] =
                   [@ EXCEPT !.pc = "done",
                             !.resp = Reply(400, "Device ID out of bounds")]]
           ELSE IF device = NoDevice
           THEN req' = [req EXCEPT ![r] =
                   [@ EXCEPT !.pc = "done",
                             !.resp = Reply(404, "Device not found")]]
           ELSE \E tag_reads \in TagReadLists(device_id) :
                   req' = [req EXCEPT ![r] =
                      [@ EXCEPT !.pc = "done",
                                !.resp = [Reply(200, "") EXCEPT
                                    !.device = DeviceRead(device, tag_reads)]]]
    /\ UNCHANGED <<users, ngen, history, pureVars, dataVars>>

\* the links of a sequence of DeviceTagLink objects as a set
Range(f) == {f[i] : i \in DOMAIN f}

\* a flush of the links the session holds violates the primary key
\* (device_id, tag_id): two of them are equal, or one is already stored
LinkConflict(st) ==
    \/ \E i, j \in DOMAIN st.pending : i # j /\ st.pending[i] = st.pending[j]
    \/ \E i \in DOMAIN st.pending : st.pending[i] \in st.links \ st.deleted

\* session.commit() inside or after the tag loop: it writes the deletions
\* and the links the session holds, or raises and writes nothing
CommitLinks(st) ==
    IF LinkConflict(st)
    THEN [st EXCEPT !.failed = TRUE]
    ELSE [st EXCEPT !.links = (st.links \ st.deleted) \cup Range(st.pending),
                    !.deleted = {}, !.pending = <<>>, !.committed = TRUE]

\* the loop "for tag_name in device_data.tags" of create_device and
\* update_device: look the tag up, create and commit it when it is missing,
\* add the link to the session
RECURSIVE link_tags(_, _, _)
link_tags(tag_names, device_id, st) ==
    IF tag_names = <<>> \/ st.failed THEN st
    ELSE LET tag_name == Head(tag_names)
             found == {t \in st.tags : t.category = "device" /\ t.tag = tag_name}
             created == [id |-> st.next + 1, category |-> "device",
                         tag |-> tag_name]
             tag == IF found = {} THEN created ELSE CHOOSE t \in found : TRUE
             st1 == IF found # {} THEN st
                    ELSE LET c == CommitLinks([st EXCEPT !.next = st.next + 1])
                         IN  IF c.failed THEN c
                             ELSE [c EXCEPT !.tags = st.tags \cup {created}]
             st2 == [st1 EXCEPT
                       !.pending = Append(@, [device_id |-> device_id,
                                              tag_id |-> tag.id]),
                       !.tag_reads = Append(@, TagRead(tag))]
         IN  IF st1.failed THEN st1
             ELSE link_tags(Tail(tag_names), device_id, st2)

\* the session at the start of the tag loop; deleted holds the links
\* update_device has marked for deletion
TagSession(deleted, committed) ==
    [tags |-> tags, next |-> seq.tag, links |-> links, deleted |-> deleted,
     pending |-> <<>>, tag_reads |-> <<>>, failed |-> FALSE,
     committed |-> committed]

InternalError == Reply(500, "Internal Server Error")

\* create_device: the check for a device of that name
create_device_lookup(r) ==
    /\ req[r].pc = "endpoint"
    /\ req[r].kind = "create_device"
    /\ ValidRequest(req[r])
    /\ LET name == req[r].body.name.val
           existing == scalar_one_or_none({d \in devices : d.name = name})
       IN  IF name # <<>> /\ existing # NoDevice
           THEN req' = [req EXCEPT ![r] =
                   [@ EXCEPT !.pc = "done",
                             !.resp = Reply(409, "Device name already exists")]]
           ELSE req' = [req EXCEPT ![r] = [@ EXCEPT !.pc = "create"]]
    /\ UNCHANGED <<users, ngen, history, pureVars, dataVars>>

\* create_device: insert the device, commit, link the tags, commit, answer
create_device_commit(r) ==
    /\ req[r].pc = "create"
    /\ \E now \in Times :
         LET body == req[r].body
             new_device ==
                 [device_id |-> seq.device + 1,
                  name |-> body.name.val,
                  latitude |-> body.latitude.val,
                  created_at |-> now,
                  comment |-> NoComment]
             tag_names == IF body.tags.set THEN body.tags.val ELSE <<>>
             st == CommitLinks(link_tags(tag_names, new_device.device_id,
                                         TagSession({}, TRUE)))
         IN  IF \E d \in devices : d.name = new_device.name
             THEN /\ req' = [req EXCEPT ![r] =
                        [@ EXCEPT !.pc = "done", !.resp = InternalError]]
                  /\ seq' = [seq EXCEPT !.device = @ + 1]
                  /\ UNCHANGED <<devices, tags, links>>
             ELSE /\ devices' = devices \cup {new_device}
                  /\ tags' = st.tags
                  /\ links' = st.links
                  /\ seq' = [seq EXCEPT !.device = @ + 1, !.tag = st.next]
                  /\ req' = [req EXCEPT ![r] =
                        [@ EXCEPT !.pc = "done",
                                  !.resp = IF st.failed THEN InternalError
                                           ELSE [Reply(201, "") EXCEPT
                                                  !.device = DeviceRead(new_device,
                                                                st.tag_reads)]]]
    /\ UNCHANGED <<users, ngen, history, pureVars, metrics, messages>>

\* the bounds check and the device query without the test "if not device"
find_device_NoNotFound(q, next) ==
    LET device == scalar_one_or_none({d \in devices : d.device_id = q.device_id})
    IN  IF q.device_id < MinDeviceId \/ q.device_id > MaxDeviceId
        THEN [q EXCEPT !.pc = "done",
                       !.resp = Reply(400, "Device ID out of bounds")]
        ELSE [q EXCEPT !.pc = next, !.device = device]

\* the bounds check and the device query that update_device and
\* delete_device start with; next is the pc a found device goes on with
find_device(q, next) ==
    LET device == scalar_one_or_none({d \in devices : d.device_id = q.device_id})
    IN  IF q.device_id < MinDeviceId \/ q.device_id > MaxDeviceId
        THEN [q EXCEPT !.pc = "done",
                       !.resp = Reply(400, "Device ID out of bounds")]
        ELSE IF device = NoDevice
        THEN [q EXCEPT !.pc = "done", !.resp = Reply(404, "Device not found")]
        ELSE [q EXCEPT !.pc = next, !.device = device]

\* update_device: bounds check, device query, name uniqueness check
update_device_lookup(r) ==
    /\ req[r].pc = "endpoint"
    /\ req[r].kind = "update_device"
    /\ ValidRequest(req[r])
    /\ LET q == find_device(req[r], "update")
           name == req[r].body.name
       IN  IF /\ q.pc = "update"
              /\ name.set /\ name.val # <<>> /\ name.val # q.device.name
              /\ \E d \in devices : d.name = name.val
           THEN req' = [req EXCEPT ![r] =
                   [@ EXCEPT !.pc = "done",
                             !.resp = Reply(409, "Device name already exists")]]
           ELSE req' = [req EXCEPT ![r] = q]
    /\ UNCHANGED <<users, ngen, history, pureVars, dataVars>>

\* model_dump(exclude={'tags'}) without exclude_unset: a field the request
\* leaves out is set to None
apply_update_AllFields(device, body) ==
    [device EXCEPT !.name = body.name.val,
                   !.latitude = body.latitude.val,
                   !.comment = body.comment.val]

\* model_dump(exclude_unset=True, exclude={'tags'}) and the setattr loop
apply_update(device, body) ==
    [device EXCEPT !.name = IF body.name.set THEN body.name.val ELSE @,
                   !.latitude = IF body.latitude.set THEN body.latitude.val
                                ELSE @,
                   !.comment = IF body.comment.set THEN body.comment.val
                               ELSE @]

\* update_device: set the fields, replace the tags if given, commit,
\* refresh, answer
update_device_commit(r) ==
    /\ req[r].pc = "update"
    /\ \E kept \in TagReadLists(req[r].device.device_id) :
       LET loaded == req[r].device
           device_id == loaded.device_id
           body == req[r].body
           new == apply_update(loaded, body)
           stored == {d \in devices : d.device_id = device_id}
           row == Flush(scalar_one_or_none(stored), loaded, new)
           old_links == {l \in links : l.device_id = device_id}
           st == IF body.tags.set
                 THEN CommitLinks(link_tags(body.tags.val, device_id,
                                            TagSession(old_links, FALSE)))
                 ELSE [TagSession({}, TRUE) EXCEPT !.tag_reads = kept]
           name_taken == \E d \in devices : /\ d.device_id # device_id
                                            /\ d.name = row.name
                                            /\ row.name # NoName
       IN  IF stored = {} \/ name_taken
           THEN /\ req' = [req EXCEPT ![r] =
                      [@ EXCEPT !.pc = "done", !.resp = InternalError]]
                /\ UNCHANGED <<devices, tags, links, seq>>
           ELSE /\ devices' = IF st.committed
                              THEN (devices \ stored) \cup {row} ELSE devices
                /\ tags' = st.tags
                /\ links' = st.links
                /\ seq' = [seq EXCEPT !.tag = st.next]
                /\ req' = [req EXCEPT ![r] =
                      [@ EXCEPT !.pc = "done",
                                !.resp = IF st.failed THEN InternalError
                                         ELSE [Reply(200, "") EXCEPT
                                                !.device = DeviceRead(row,
                                                              st.tag_reads)]]]
    /\ UNCHANGED <<users, ngen, history, pureVars, metrics, messages>>

\* delete_device: bounds check and device query
delete_device_lookup(r) ==
    /\ req[r].pc = "endpoint"
    /\ req[r].kind = "delete_device"
    /\ ValidRequest(req[r])
    /\ req' = [req EXCEPT ![r] = find_device(req[r], "delete")]
    /\ UNCHANGED <<users, ngen, history, pureVars, dataVars>>

\* delete_device: delete the tag links and the device, commit; the metrics
\* and messages of the device lose their device reference
delete_device_commit(r) ==
    /\ req[r].pc = "delete"
    /\ LET device_id == req[r].device.device_id
           orphan(row) == IF row.device_id = device_id
                          THEN [row EXCEPT !.device_id = 0] ELSE row
       IN  IF \A d \in devices : d.device_id # device_id
           THEN /\ req' = [req EXCEPT ![r] =
                      [@ EXCEPT !.pc = "done", !.resp = InternalError]]
                /\ UNCHANGED <<devices, links, metrics, messages>>
           ELSE /\ devices' = {d \in devices : d.device_id # device_id}
                /\ links' = {l \in links : l.device_id # device_id}
                /\ metrics' = {orphan(m) : m \in metrics}
                /\ messages' = {orphan(m) : m \in messages}
                /\ req' = [req EXCEPT ![r] =
                      [@ EXCEPT !.pc = "done",
                                !.resp = Reply(200, "Device deleted successfully")]]
    /\ UNCHANGED <<users, ngen, history, pureVars, tags, seq>>

(* ------------------------- v2/routers/metrics.py ----------------------- *)
\* create_metric: look the device up by name
create_metric_lookup(r) ==
    /\ req[r].pc = "endpoint"
    /\ req[r].kind = "create_metric"
    /\ ValidRequest(req[r])
    /\ LET device == scalar_one_or_none(
                        {d \in devices : d.name = req[r].body.device_name.val})
       IN  IF device = NoDevice
           THEN req' = [req EXCEPT ![r] =
                   [@ EXCEPT !.pc = "done",
                             !.resp = Reply(404, "Device not found")]]
           ELSE req' = [req EXCEPT ![r] =
                   [@ EXCEPT !.pc = "metric", !.device = device]]
    /\ UNCHANGED <<users, ngen, history, pureVars, dataVars>>

\* the SensorMessage rows of one request
new_messages(body, device_id, metric_id) ==
    LET given == IF body.sensor_messages.set THEN body.sensor_messages.val
                 ELSE <<>>
    IN  [i \in DOMAIN given |->
            [id |-> seq.message + i, device_id |-> device_id,
             sensor_metric_id |-> metric_id, gateway_id |-> given[i]]]

\* create_metric: add the metric, flush, add the messages, commit, answer
create_metric_commit(r) ==
    /\ req[r].pc = "metric"
    /\ \E d \in devices : d.device_id = req[r].device.device_id
    /\ LET device_id == req[r].device.device_id
           new_metric == [id |-> seq.metric + 1, device_id |-> device_id,
                          timestamp_server |-> req[r].body.timestamp_server.val]
           created_messages == new_messages(req[r].body, device_id, new_metric.id)
       IN  /\ metrics' = metrics \cup {new_metric}
           /\ messages' = messages \cup Range(created_messages)
           /\ seq' = [seq EXCEPT !.metric = @ + 1,
                                 !.message = @ + Len(created_messages)]
           /\ req' = [req EXCEPT ![r] =
                 [@ EXCEPT !.pc = "done",
                           !.resp = [Reply(200, "") EXCEPT
                               !.metric = [id |-> new_metric.id,
                                           device_id |-> device_id,
                                           sensor_messages |-> created_messages]]]]
    /\ UNCHANGED <<users, ngen, history, pureVars, devices, tags, links>>

\* create_metric: the flush or the commit raises; rollback, answer 500
create_metric_fails(r) ==
    /\ req[r].pc = "metric"
    /\ \E consumed \in {0, 1} :
          seq' = [seq EXCEPT !.metric = @ + consumed]
    /\ req' = [req EXCEPT ![r] =
          [@ EXCEPT !.pc = "done",
                    !.resp = Reply(500, "Failed to create metric")]]
    /\ UNCHANGED <<users, ngen, history, pureVars, devices, tags, links,
                   metrics, messages>>

Digits == <<"0", "1", "2", "3", "4", "5", "6", "7", "8", "9">>

\* str.isdigit(): not empty and decimal digits only
isdigit(date_str) ==
    /\ date_str # <<>>
    /\ \A i \in 1..Len(date_str) : \E d \in 1..Len(Digits) : Digits[d] = date_str[i]

\* int() of a string of decimal digits
RECURSIVE int(_)
int(date_str) ==
    IF date_str = <<>> THEN 0
    ELSE LET last == date_str[Len(date_str)]
             d == CHOOSE k \in 1..Len(Digits) : Digits[k] = last
         IN  10 * int(SubSeq(date_str, 1, Len(date_str) - 1)) + (d - 1)

\* parse_date_parameter for a Unix timestamp or a string that is neither a
\* timestamp nor an ISO date: Null for an empty string, the number, or the
\* mark of HTTPException(400)
InvalidDate == [null |-> TRUE, n |-> 0 - 1]

parse_date_parameter(date_str) ==
    IF date_str = <<>> THEN Null
    ELSE IF isdigit(date_str) THEN Num(int(date_str))
    ELSE InvalidDate

\* the rows the date filters of get_metrics keep; a row without
\* timestamp_server satisfies no comparison
FilteredMetrics(query) ==
    LET min_timestamp == parse_date_parameter(query.min_date)
        max_timestamp == parse_date_parameter(query.max_date)
    IN  {m \in metrics :
           /\ query.min_date # <<>> =>
                 (~m.timestamp_server.null
                     /\ m.timestamp_server.n >= min_timestamp.n)
           /\ query.max_date # <<>> =>
                 (~m.timestamp_server.null
                     /\ m.timestamp_server.n <= max_timestamp.n)}

\* order_by(SensorMetric.timestamp_server.desc()): rows without a timestamp
\* first, rows of one timestamp in any order
LatestFirst(S) ==
    {o \in Orders(S) :
        \A i, j \in DOMAIN o : i < j =>
           \/ o[i].timestamp_server.null
           \/ /\ ~o[j].timestamp_server.null
              /\ o[i].timestamp_server.n >= o[j].timestamp_server.n}

\* SensorMetricSimple(id=, timestamp_server=, device_id=, ...)
SensorMetricSimple(metric) ==
    [id |-> metric.id, timestamp_server |-> metric.timestamp_server,
     device_id |-> metric.device_id]

\* the test "if total_count > limit" always taken
needs_pagination_Always(total_count, limit) == TRUE

\* get_metrics: "if total_count > limit"
needs_pagination(total_count, limit) == total_count > limit

GET_metrics(r, x_api_key, authorization, query) ==
    Receive(r, "get_metrics", x_api_key, authorization,
            [NoPayload EXCEPT !.query = query])

\* get_metrics
get_metrics(r) ==
    /\ req[r].pc = "endpoint"
    /\ req[r].kind = "get_metrics"
    /\ ValidRequest(req[r])
    /\ LET limit == req[r].query.limit
           page == req[r].query.page
           found == FilteredMetrics(req[r].query)
           total_count == Cardinality(found)
           offset == (page - 1) * limit
           total_pages == (total_count + limit - 1) \div limit
       IN  IF \/ parse_date_parameter(req[r].query.min_date) = InvalidDate
              \/ parse_date_parameter(req[r].query.max_date) = InvalidDate
           THEN req' = [req EXCEPT ![r] =
                   [@ EXCEPT !.pc = "done",
                             !.resp = Reply(400, "Invalid date format")]]
           ELSE \E o \in LatestFirst(found) :
              LET rows == IF needs_pagination(total_count, limit)
                          THEN Page(o, offset, limit)
                          ELSE Page(o, 0, limit)
                  data == [i \in DOMAIN rows |-> SensorMetricSimple(rows[i])]
              IN  req' = [req EXCEPT ![r] =
                     [@ EXCEPT !.pc = "done",
                               !.resp = [Reply(200, "") EXCEPT
                                   !.data = data,
                                   !.pagination =
                                      IF needs_pagination(total_count, limit)
                                      THEN [total_count |-> total_count,
                                            page |-> page,
                                            limit |-> limit,
                                            total_pages |-> total_pages,
                                            has_next |-> page < total_pages,
                                            has_prev |-> page > 1]
                                      ELSE [total_count |-> total_count,
                                            page |-> 1,
                                            limit |-> Len(data),
                                            total_pages |-> 1,
                                            has_next |-> FALSE,
                                            has_prev |-> FALSE]]]]
    /\ UNCHANGED <<users, ngen, history, pureVars, dataVars>>

\* create_metric: the commit succeeds, then a refresh of the new rows raises
\* inside the try block; the rollback finds nothing to undo, answer 500
create_metric_refresh_fails(r) ==
    /\ req[r].pc = "metric"
    /\ \E d \in devices : d.device_id = req[r].device.device_id
    /\ LET device_id == req[r].device.device_id
           new_metric == [id |-> seq.metric + 1, device_id |-> device_id,
                          timestamp_server |-> req[r].body.timestamp_server.val]
           created_messages == new_messages(req[r].body, device_id, new_metric.id)
       IN  /\ metrics' = metrics \cup {new_metric}
           /\ messages' = messages \cup Range(created_messages)
           /\ seq' = [seq EXCEPT !.metric = @ + 1,
                                 !.message = @ + Len(created_messages)]
           /\ req' = [req EXCEPT ![r] =
                 [@ EXCEPT !.pc = "done",
                           !.resp = Reply(500, "Failed to create metric")]]
    /\ UNCHANGED <<users, ngen, history, pureVars, devices, tags, links>>

Next ==
    \/ \E r \in Serial, kind \in {"me", "regen"}, x \in Headers, a \in Headers :
          Authenticate(r, kind, x, a)
    \/ \E r \in Serial : ScanNoMatch(r)
    \/ \E r \in Serial : ScanMatch(r)
    \/ \E r \in Serial : ScanMatchCommitFails(r)
    \/ \E r \in Serial, username \in RegUsernames, email \in RegEmails :
          RegisterLookup(r, username, email)
    \/ \E r \in Serial : RegisterNotFound(r)
    \/ \E r \in Serial : RegisterConflict(r)
    \/ \E r \in Serial : RegisterCommit(r)
    \/ \E r \in Serial : RegisterFails(r)
    \/ \E r \in Serial : RegenerateCommit(r)
    \/ \E r \in Serial : RegenerateFails(r)
    \/ \E r \in Serial : Respond(r)

\* requests served one after another
Spec == Init /\ [][Next]_vars

\* what clients send while two requests are in flight: the X-API-Key header
\* with an issued or an unknown key, register for ali or an unknown username
ConcHeaders ==
    {Hdr(k) : k \in {UnknownKey} \cup {generate_api_key(n) : n \in 1..ngen}}

ConcUsernames == {Ali, Eve}

NextConc ==
    \/ \E r \in Reqs, kind \in {"me", "regen"}, x \in ConcHeaders :
          Authenticate(r, kind, x, Absent)
    \/ \E r \in Reqs : ScanNoMatch(r)
    \/ \E r \in Reqs : ScanMatch(r)
    \/ \E r \in Reqs : ScanMatchCommitFails(r)
    \/ \E r \in Reqs, username \in ConcUsernames :
          RegisterLookup(r, username, NoEmail)
    \/ \E r \in Reqs : RegisterNotFound(r)
    \/ \E r \in Reqs : RegisterConflict(r)
    \/ \E r \in Reqs : RegisterCommit(r)
    \/ \E r \in Reqs : RegisterFails(r)
    \/ \E r \in Reqs : RegenerateCommit(r)
    \/ \E r \in Reqs : RegenerateFails(r)
    \/ \E r \in Reqs : Respond(r)

\* two requests in flight, interleaved at every database round trip
SpecConc == Init /\ [][NextConc]_vars

\* what clients of the device endpoints send: no key, an unknown key, the
\* test user's key
DevHeaders == {Absent, Hdr(UnknownKey), Hdr(TestKey)}

\* bodies of POST /devices: with a comment, with a tag, with a tag named
\* twice, without the name
CreateBodies ==
    {[NoBody EXCEPT !.name = Given(N1), !.comment = Given(C1)],
     [NoBody EXCEPT !.name = Given(N2), !.tags = Given(<<T1>>)],
     [NoBody EXCEPT !.name = Given(N1), !.tags = Given(<<T1, T1>>)],
     [NoBody EXCEPT !.comment = Given(C1)]}

\* bodies of PUT /devices/{id}: a comment, a name, a latitude with a new
\* tag list, an empty tag list, a latitude out of range
UpdateBodies ==
    {[NoBody EXCEPT !.comment = Given(C2)],
     [NoBody EXCEPT !.name = Given(N2)],
     [NoBody EXCEPT !.latitude = Given(Num(1)), !.tags = Given(<<T1, T2>>)],
     [NoBody EXCEPT !.tags = Given(<<>>)],
     [NoBody EXCEPT !.latitude = Given(Num(MaxLatitude + 1))]}

\* device ids in a path: below the range, allocated ones, one never allocated
PathIds == {MinDeviceId - 1, MaxDeviceId - 1} \cup (1..MaxDevices)

\* queries of GET /devices: the defaults, pages one to three of one row
\* each, a tag filter, a limit below the range
Queries ==
    {NoQuery} \cup
    {[NoQuery EXCEPT !.limit = MinLimit, !.page = p] :
        p \in MinPage..(MinPage + 2)} \cup
    {[NoQuery EXCEPT !.limit = MinLimit, !.tag_name = T1],
     [NoQuery EXCEPT !.limit = MinLimit - 1]}

NextDev ==
    \/ \E r \in Serial, x \in DevHeaders, body \in CreateBodies :
          POST_devices(r, x, Absent, body)
    \/ \E r \in Serial, x \in DevHeaders, id \in PathIds, body \in UpdateBodies :
          PUT_device(r, x, Absent, id, body)
    \/ \E r \in Serial, x \in DevHeaders, id \in PathIds :
          DELETE_device(r, x, Absent, id)
    \/ \E r \in Serial, x \in DevHeaders, id \in PathIds :
          GET_device(r, x, Absent, id)
    \/ \E r \in Serial, x \in DevHeaders, query \in Queries :
          GET_devices(r, x, Absent, query)
    \/ \E r \in Serial : ScanNoMatch(r)
    \/ \E r \in Serial : ScanMatch(r)
    \/ \E r \in Serial : ScanMatchCommitFails(r)
    \/ \E r \in Serial : Unprocessable(r)
    \/ \E r \in Serial : get_devices(r)
    \/ \E r \in Serial : get_device(r)
    \/ \E r \in Serial : create_device_lookup(r)
    \/ \E r \in Serial : create_device_commit(r)
    \/ \E r \in Serial : update_device_lookup(r)
    \/ \E r \in Serial : update_device_commit(r)
    \/ \E r \in Serial : delete_device_lookup(r)
    \/ \E r \in Serial : delete_device_commit(r)
    \/ \E r \in Serial : Respond(r)

\* the device endpoints after bootstrap, requests served one after another
SpecDev == InitApi /\ [][NextDev]_vars

\* what clients of the protected endpoints send: no key, an empty key, the
\* test user's key or a key issued since
GateHeaders ==
    {Absent, Hdr(<<>>), Hdr(TestKey)}
        \cup {Hdr(generate_api_key(n)) : n \in 1..ngen}

\* one body the schema accepts and one it rejects, for each endpoint
GateCreateBodies ==
    {[NoBody EXCEPT !.name = Given(N1)], [NoBody EXCEPT !.comment = Given(C1)]}

GateUpdateBodies ==
    {[NoBody EXCEPT !.comment = Given(C2)],
     [NoBody EXCEPT !.latitude = Given(Num(MaxLatitude + 1))]}

GateMetricBodies ==
    {[NoBody EXCEPT !.device_name = Given(N1),
                    !.sensor_messages = Given(<<G1>>)],
     NoBody}

\* the id of the first device and an id that is never allocated
GatePathIds == {MinDeviceId, MaxDeviceId - 1}

NextGate ==
    \/ \E r \in Serial, kind \in {"me", "regen"}, x \in GateHeaders :
          Authenticate(r, kind, x, Absent)
    \/ \E r \in Serial, x \in GateHeaders, body \in GateCreateBodies :
          POST_devices(r, x, Absent, body)
    \/ \E r \in Serial, x \in GateHeaders, id \in GatePathIds,
          body \in GateUpdateBodies :
          PUT_device(r, x, Absent, id, body)
    \/ \E r \in Serial, x \in GateHeaders, id \in GatePathIds :
          DELETE_device(r, x, Absent, id)
    \/ \E r \in Serial, x \in GateHeaders, body \in GateMetricBodies :
          POST_metrics(r, x, Absent, body)
    \/ \E r \in Serial : ScanNoMatch(r)
    \/ \E r \in Serial : ScanMatch(r)
    \/ \E r \in Serial : ScanMatchCommitFails(r)
    \/ \E r \in Serial : RegenerateCommit(r)
    \/ \E r \in Serial : RegenerateFails(r)
    \/ \E r \in Serial : Unprocessable(r)
    \/ \E r \in Serial : create_device_lookup(r)
    \/ \E r \in Serial : create_device_commit(r)
    \/ \E r \in Serial : update_device_lookup(r)
    \/ \E r \in Serial : update_device_commit(r)
    \/ \E r \in Serial : delete_device_lookup(r)
    \/ \E r \in Serial : delete_device_commit(r)
    \/ \E r \in Serial : create_metric_lookup(r)
    \/ \E r \in Serial : create_metric_commit(r)
    \/ \E r \in Serial : create_metric_fails(r)
    \/ \E r \in Serial : create_metric_refresh_fails(r)
    \/ \E r \in Serial : Respond(r)

\* the endpoints declared with Depends(require_auth), after bootstrap,
\* requests served one after another
SpecGate == InitApi /\ [][NextGate]_vars

\* what clients send while two device requests are in flight: the test
\* user's key, creates of two names, a rename to the second name
RaceCreateBodies ==
    {[NoBody EXCEPT !.name = Given(N1)], [NoBody EXCEPT !.name = Given(N2)]}

RaceUpdateBodies == {[NoBody EXCEPT !.name = Given(N2)]}

NextDevConc ==
    \/ \E r \in Reqs, body \in RaceCreateBodies :
          POST_devices(r, Hdr(TestKey), Absent, body)
    \/ \E r \in Reqs, id \in 1..MaxDevices, body \in RaceUpdateBodies :
          PUT_device(r, Hdr(TestKey), Absent, id, body)
    \/ \E r \in Reqs : ScanMatch(r)
    \/ \E r \in Reqs : create_device_lookup(r)
    \/ \E r \in Reqs : create_device_commit(r)
    \/ \E r \in Reqs : update_device_lookup(r)
    \/ \E r \in Reqs : update_device_commit(r)
    \/ \E r \in Reqs : Respond(r)

\* authenticated creates and updates of devices, two requests in flight,
\* interleaved at every database round trip
SpecDevConc == InitApi /\ [][NextDevConc]_vars

\* bodies of POST /metrics for the device n1: two server timestamps, none
MetricBodies ==
    {[NoBody EXCEPT !.device_name = Given(N1),
                    !.timestamp_server = Given(Num(t))] : t \in 1..2}
       \cup {[NoBody EXCEPT !.device_name = Given(N1)]}

\* queries of GET /metrics: the defaults, page two of the default limit,
\* pages one to three of one row each, a lower and an upper date bound, a
\* date that is none, a limit below the range
MetricQueries ==
    {NoQuery, [NoQuery EXCEPT !.page = MinPage + 1]} \cup
    {[NoQuery EXCEPT !.limit = MinLimit, !.page = p] :
        p \in MinPage..(MinPage + 2)} \cup
    {[NoQuery EXCEPT !.limit = MinLimit, !.min_date = <<"2">>],
     [NoQuery EXCEPT !.limit = MinLimit, !.page = MinPage + 1,
                     !.max_date = <<"1", "0">>],
     [NoQuery EXCEPT !.min_date = <<"x">>],
     [NoQuery EXCEPT !.limit = MinLimit - 1]}

NextMetrics ==
    \/ \E r \in Serial :
          POST_devices(r, Hdr(TestKey), Absent, [NoBody EXCEPT !.name = Given(N1)])
    \/ \E r \in Serial, body \in MetricBodies :
          POST_metrics(r, Hdr(TestKey), Absent, body)
    \/ \E r \in Serial, query \in MetricQueries :
          GET_metrics(r, Absent, Absent, query)
    \/ \E r \in Serial : ScanMatch(r)
    \/ \E r \in Serial : Unprocessable(r)
    \/ \E r \in Serial : create_device_lookup(r)
    \/ \E r \in Serial : create_device_commit(r)
    \/ \E r \in Serial : create_metric_lookup(r)
    \/ \E r \in Serial : create_metric_commit(r)
    \/ \E r \in Serial : get_metrics(r)
    \/ \E r \in Serial : Respond(r)

\* the metric endpoints after bootstrap, requests served one after another
SpecMetrics == InitApi /\ [][NextMetrics]_vars

(* ------------------- app/auth.py called directly ----------------------- *)
\* draws of the random source a direct call can see
PureDraws == 1..5

DashKey == Fill(KeyLen, "-", "_")

\* keys handed to the functions: empty, malformed, well-formed, generated
PureKeys ==
    {NoKey, DashKey} \cup JunkKeys \cup {generate_api_key(n) : n \in PureDraws}

PureSalts == {NoSalt, generate_salt(1), generate_salt(2)}

\* the calls with their arguments bound
PureCalls ==
    {[NoCall EXCEPT !.pc = "args", !.fn = "verify", !.api_key = k1,
                    !.other_key = k2, !.salt = s] :
        k1 \in PureKeys, k2 \in PureKeys, s \in PureSalts}
    \cup {[NoCall EXCEPT !.pc = "args", !.fn = "format", !.api_key = k] :
             k \in PureKeys}
    \cup {[NoCall EXCEPT !.pc = "args", !.fn = fn] :
             fn \in {"generate", "generate_with_hash"}}

InitPure ==
    /\ users = [u \in UserIds |-> NewUser(u)]
    /\ req = [r \in Reqs |-> Idle]
    /\ ngen = 0
    /\ history = <<>>
    /\ call \in PureCalls
    /\ NoData

\* stored_hash = hash_api_key(other_key, salt)
CallHash ==
    /\ call.pc = "args"
    /\ call.fn = "verify"
    /\ call' = [call EXCEPT !.pc = "hashed",
                            !.stored_hash = hash_api_key(call.other_key,
                                                         call.salt)]
    /\ UNCHANGED <<users, req, ngen, history, dataVars>>

\* verify_api_key(api_key, stored_hash, salt)
CallVerify ==
    /\ call.pc = "hashed"
    /\ call' = [call EXCEPT !.pc = "returned",
                            !.result = verify_api_key(call.api_key,
                                                      call.stored_hash,
                                                      call.salt)]
    /\ UNCHANGED <<users, req, ngen, history, dataVars>>

\* api_key = generate_api_key()
CallGenerate(n) ==
    /\ call.pc = "args"
    /\ call.fn = "generate"
    /\ call' = [call EXCEPT !.pc = "generated",
                            !.api_key = generate_api_key(n)]
    /\ UNCHANGED <<users, req, ngen, history, dataVars>>

\* api_key, key_hash, salt = generate_api_key_with_hash()
CallGenerateWithHash(n) ==
    /\ call.pc = "args"
    /\ call.fn = "generate_with_hash"
    /\ LET cred == generate_api_key_with_hash(n)
       IN  call' = [call EXCEPT !.pc = "generated",
                                !.api_key = cred.api_key,
                                !.stored_hash = cred.key_hash,
                                !.salt = cred.salt]
    /\ UNCHANGED <<users, req, ngen, history, dataVars>>

\* is_valid_api_key_format(api_key), on an argument or on a generated key
CallFormat ==
    /\ \/ call.pc = "args" /\ call.fn = "format"
       \/ call.pc = "generated"
    /\ call' = [call EXCEPT !.pc = "returned",
                            !.result = is_valid_api_key_format(call.api_key)]
    /\ UNCHANGED <<users, req, ngen, history, dataVars>>

NextPure ==
    \/ CallHash
    \/ CallVerify
    \/ \E n \in PureDraws : CallGenerate(n)
    \/ \E n \in PureDraws : CallGenerateWithHash(n)
    \/ CallFormat

\* the functions of app/auth.py applied to bound arguments
SpecPure == InitPure /\ [][NextPure]_vars

(* ============================ properties ============================== *)
AuthKinds == {"me", "regen"}

\* request r runs get_current_user and it has returned a user
Returned(r) == req[r].kind \in AuthKinds /\ req[r].user.user_id # 0

\* request r runs get_current_user and it has raised or returned
AuthEnded(r) == req[r].kind \in AuthKinds /\ req[r].pc \in {"regen", "done"}

\* the keys committed for account u by the first v credential writes
KeysOf(u, v) ==
    {history[i].api_key : i \in {j \in 1..v : history[j].user_id = u}}

\* the key the latest of the first v credential writes gave account u
IsCurrentKey(k, u, v) ==
    \E i \in 1..v :
        /\ history[i].user_id = u
        /\ history[i].api_key = k
        /\ \A j \in (i + 1)..v : history[j].user_id # u

\* a key of account u that a regenerate-key among the first v writes replaced
IsPreviousKey(k, u, v) ==
    \E i \in 1..v, j \in 1..v :
        /\ i < j
        /\ history[i].user_id = u
        /\ history[i].api_key = k
        /\ history[j].user_id = u
        /\ history[j].op = "regen"

Malformed(k) == Len(k) # KeyLen \/ \E i \in 1..Len(k) : k[i] \notin valid_chars

\* C1: get_current_user returns a user only if that user is in the fetched
\* candidate set with is_active, is_registered, a hash and a salt, and the
\* presented key verifies against that hash and salt; a key issued to one
\* account never resolves to another account.
C1_ReturnsOnlyVerifiedCandidate ==
    \A r \in Reqs :
        Returned(r) =>
            /\ \E i \in 1..Len(req[r].users) :
                 LET row == req[r].users[i]
                 IN  /\ row.user_id = req[r].user.user_id
                     /\ row.is_active
                     /\ row.is_registered
                     /\ row.api_key_hash # NoHash
                     /\ row.api_key_salt # NoSalt
                     /\ verify_api_key(req[r].api_key, row.api_key_hash,
                                       row.api_key_salt)
            /\ \A u \in UserIds :
                 req[r].api_key \in KeysOf(u, Len(history)) =>
                     req[r].user.user_id = u

\* both accounts are scanned, the second one scanned is returned
C1_Witness ==
    \E r \in Reqs :
        /\ Returned(r)
        /\ Len(req[r].users) = 2
        /\ req[r].users[2].user_id = req[r].user.user_id
        /\ req[r].checked = <<req[r].users[1].user_id, req[r].users[2].user_id>>

\* C2: every user record has api_key_hash and api_key_salt both null or both
\* non-null, whatever registers and regenerate-keys ran, failed ones included.
C2_CredentialPairComplete ==
    \A u \in UserIds :
        (users[u].api_key_hash = NoHash) <=> (users[u].api_key_salt = NoSalt)

\* a regenerate-key has failed next to one that committed, while one account
\* holds a credential and the other none
C2_Witness ==
    /\ \E r \in Reqs : /\ req[r].kind = "regen"
                       /\ req[r].pc = "done"
                       /\ req[r].resp.status = 500
    /\ \E r \in Reqs : /\ req[r].kind = "regen"
                       /\ req[r].pc = "done"
                       /\ req[r].resp.status = 200
    /\ \E u \in UserIds : users[u].api_key_hash # NoHash
    /\ \E u \in UserIds : users[u].api_key_hash = NoHash

\* C3: after a regenerate-key of an account has committed, an authenticate
\* with a previous key of the account fails with 401, an authenticate with
\* the key the account holds resolves to the account, and never do two keys
\* of one account verify against its stored credential.
C3_OldKeyDeadNewKeyLive ==
    /\ \A r \in Reqs, u \in UserIds :
         AuthEnded(r) =>
           /\ IsPreviousKey(req[r].api_key, u, req[r].fetch_ver) =>
                  req[r].resp.status = 401
           /\ ( /\ IsCurrentKey(req[r].api_key, u, req[r].fetch_ver)
                /\ \E i \in 1..req[r].fetch_ver :
                      history[i].user_id = u /\ history[i].op = "regen" )
              => Returned(r) /\ req[r].user.user_id = u
    /\ \A u \in UserIds :
         Cardinality({k \in KeysOf(u, Len(history)) :
             verify_api_key(k, users[u].api_key_hash,
                            users[u].api_key_salt)}) <= 1

IsRegistered(row) ==
    row.is_registered /\ row.api_key_hash # NoHash /\ row.api_key_salt # NoSalt

\* C4: a register that answers 201 has stored a hash and a salt for the key it
\* returns and set is_registered and is_active; a registered account stays
\* registered with a hash and a salt in every later step.
C4_RegistrationOneWay ==
    [][ /\ \A r \in Reqs :
            ( /\ req[r].pc = "register"
              /\ req'[r].pc = "done"
              /\ req'[r].resp.status = 201 )
            => LET row == users'[req'[r].resp.user_id]
               IN  /\ IsRegistered(row)
                   /\ row.is_active
                   /\ row.username = strip(req[r].username)
                   /\ verify_api_key(req'[r].resp.api_key, row.api_key_hash,
                                     row.api_key_salt)
        /\ \A u \in UserIds : IsRegistered(users[u]) => IsRegistered(users'[u])
      ]_vars

\* a register has just answered 201 while an authenticate of the account is
\* in flight, after a regenerate-key of the account
C4_Witness ==
    /\ \E r \in Reqs : /\ req[r].kind = "register"
                       /\ req[r].resp.status = 201
    /\ \E r \in Reqs : Returned(r)
    /\ \E i \in 1..Len(history) : history[i].op = "regen"
    /\ \E u \in UserIds : IsRegistered(users[u]) /\ users[u].is_active

\* the account a register request names, 0 when there is none
Named(username) ==
    IF \E u \in UserIds : users[u].username = strip(username)
    THEN CHOOSE u \in UserIds : users[u].username = strip(username)
    ELSE 0

\* C5: a register that finds the named account with a credential record
\* (hash and salt present) ends with 409 USER_ALREADY_REGISTERED and no key,
\* and changes no user record, so the key the account holds still verifies.
C5_AlreadyRegistered ==
    [][ \A r \in Reqs :
          /\ ( /\ req[r].pc = "idle"
               /\ req'[r].pc = "register"
               /\ Named(req'[r].username) # 0 )
             => req'[r].user = users[Named(req'[r].username)]
          /\ ( /\ req[r].pc = "register"
               /\ req'[r].pc = "done"
               /\ req[r].user.api_key_hash # NoHash
               /\ req[r].user.api_key_salt # NoSalt )
             => /\ req'[r].resp.status = 409
                /\ req'[r].resp.error_code = "USER_ALREADY_REGISTERED"
                /\ req'[r].resp.api_key = NoKey
                /\ req'[r].resp.user_id = 0
                /\ users' = users
                /\ \A k \in KeysOf(req[r].user.user_id, Len(history)) :
                     IsCurrentKey(k, req[r].user.user_id, Len(history)) =>
                        verify_api_key(k,
                           users'[req[r].user.user_id].api_key_hash,
                           users'[req[r].user.user_id].api_key_salt)
      ]_vars

\* the register is refused for a username sent with surrounding blanks
C5_Witness ==
    \E r \in Reqs :
        /\ req[r].kind = "register"
        /\ req[r].username # strip(req[r].username)
        /\ req[r].resp.status = 409
        /\ IsRegistered(users[Named(req[r].username)])

\* C6 as stated: a register whose username matches no account ends with 404.
C6_NoAccountMeans404 ==
    \A r \in Reqs :
        ( /\ req[r].kind = "register"
          /\ req[r].pc = "done"
          /\ Named(req[r].username) = 0 )
        => req[r].resp.status = 404

\* C6 amended: a register whose username matches no account ends with 404
\* USERNAME_NOT_FOUND when the username has at least 3 characters after
\* trimming and with 422 when it is shorter or empty; either way it returns no
\* key and changes no user record.
C6_NoAccount404Or422 ==
    [][ \A r \in Reqs :
          ( /\ req'[r].kind = "register"
            /\ req[r].pc # "done"
            /\ req'[r].pc = "done"
            /\ Named(req'[r].username) = 0 )
          => /\ IF Len(strip(req'[r].username)) >= MinUsernameLen
                THEN /\ req'[r].resp.status = 404
                     /\ req'[r].resp.error_code = "USERNAME_NOT_FOUND"
                ELSE req'[r].resp.status = 422
             /\ req'[r].resp.api_key = NoKey
             /\ users' = users
      ]_vars

C6_Witness ==
    \E r \in Reqs :
        /\ req[r].kind = "register"
        /\ req[r].username = Eve
        /\ req[r].resp.status = 404
        /\ \E u \in UserIds : IsRegistered(users[u])

\* C7 as stated: the presented key is the X-API-Key value whenever that header
\* is present, the bearer credential is used only when X-API-Key is absent,
\* and with neither header the request fails with the missing-credential 401
\* without a fetch.
C7_HeaderPresentWins ==
    \A r \in Reqs :
        (req[r].kind \in AuthKinds /\ req[r].pc # "idle") =>
            /\ req[r].x_api_key.present => req[r].api_key = req[r].x_api_key.val
            /\ ( /\ req[r].authorization.present
                 /\ req[r].api_key = req[r].authorization.val
                 /\ req[r].api_key # req[r].x_api_key.val )
               => ~req[r].x_api_key.present
            /\ (~req[r].x_api_key.present /\ ~req[r].authorization.present)
               => /\ req[r].resp = MissingKeyReply
                  /\ ~req[r].fetched
                  /\ req[r].checked = <<>>

\* C7 amended: the presented key is the X-API-Key value whenever that header
\* has a non-empty value, the bearer credential is used only when X-API-Key
\* is absent or empty, and when neither header has a value the request fails
\* with the missing-credential 401 without fetching or checking any user.
C7_HeaderValueWins ==
    \A r \in Reqs :
        (req[r].kind \in AuthKinds /\ req[r].pc # "idle") =>
            /\ (req[r].x_api_key.present /\ req[r].x_api_key.val # <<>>)
               => req[r].api_key = req[r].x_api_key.val
            /\ ( /\ req[r].authorization.present
                 /\ req[r].api_key = req[r].authorization.val
                 /\ req[r].api_key # req[r].x_api_key.val )
               => (~req[r].x_api_key.present \/ req[r].x_api_key.val = <<>>)
            /\ ( /\ ~req[r].x_api_key.present \/ req[r].x_api_key.val = <<>>
                 /\ ~req[r].authorization.present
                        \/ req[r].authorization.val = <<>> )
               => /\ req[r].pc = "done"
                  /\ req[r].resp = MissingKeyReply
                  /\ ~req[r].fetched
                  /\ req[r].users = <<>>
                  /\ req[r].checked = <<>>

\* X-API-Key carries junk, the bearer header the key of a registered account
C7_Witness ==
    \E r \in Reqs, u \in UserIds :
        /\ req[r].kind \in AuthKinds
        /\ req[r].pc = "done"
        /\ req[r].x_api_key = Hdr(UnknownKey)
        /\ req[r].authorization.present
        /\ IsCurrentKey(req[r].authorization.val, u, Len(history))
        /\ req[r].resp.status = 401

\* C8: an authenticate without any credential and one with only a malformed
\* key (wrong length or illegal character) both end with status 401, and the
\* malformed one fetches no candidate and verifies against none.
C8_MissingAndMalformedSameStatus ==
    \A r \in Reqs :
        (req[r].kind \in AuthKinds /\ req[r].pc # "idle") =>
            LET x == req[r].x_api_key
                a == req[r].authorization
                none == ~Truthy(x) /\ ~Truthy(a)
                onlyMalformed ==
                    \/ Truthy(x) /\ ~Truthy(a) /\ Malformed(x.val)
                    \/ ~Truthy(x) /\ Truthy(a) /\ Malformed(a.val)
            IN  /\ none => req[r].pc = "done" /\ req[r].resp.status = 401
                /\ onlyMalformed =>
                     /\ req[r].pc = "done"
                     /\ req[r].resp.status = 401
                     /\ ~req[r].fetched
                     /\ req[r].users = <<>>
                     /\ req[r].checked = <<>>

\* a key with an illegal character is refused while an account could match
C8_Witness ==
    \E r \in Reqs :
        /\ req[r].kind \in AuthKinds
        /\ req[r].x_api_key = Absent
        /\ req[r].authorization = Hdr(BadCharKey)
        /\ req[r].resp.status = 401
        /\ Candidates(users) # {}

\* C9: a failed authenticate answers a malformed key with the same status and
\* body as a well-formed key that matches no account.
C9_MalformedSameAsUnmatched ==
    \A r \in Reqs :
        ( /\ req[r].kind \in AuthKinds
          /\ req[r].pc = "done"
          /\ req[r].api_key # NoKey
          /\ Malformed(req[r].api_key) )
        => req[r].resp = InvalidKeyReply

\* index of the first fetched row whose hash and salt verify k, 0 if none
FirstVerifying(k, rows) ==
    IF \E i \in 1..Len(rows) :
          verify_api_key(k, rows[i].api_key_hash, rows[i].api_key_salt)
    THEN CHOOSE i \in 1..Len(rows) :
          /\ verify_api_key(k, rows[i].api_key_hash, rows[i].api_key_salt)
          /\ \A j \in 1..(i - 1) :
                ~verify_api_key(k, rows[j].api_key_hash, rows[j].api_key_salt)
    ELSE 0

\* C10: for a well-formed key get_current_user returns the first fetched
\* candidate whose hash and salt verify the key, having checked the rows up
\* to it and none after it; when no candidate verifies it has checked them
\* all and fails with the invalid-credential 401, never with a 500.
C10_FirstMatchOrInvalid401 ==
    \A r \in Reqs :
        (AuthEnded(r) /\ req[r].fetched) =>
            LET rows == req[r].users
                n == FirstVerifying(req[r].api_key, rows)
            IN  IF n # 0
                THEN /\ Returned(r)
                     /\ req[r].user.user_id = rows[n].user_id
                     /\ req[r].checked = [i \in 1..n |-> rows[i].user_id]
                ELSE /\ req[r].pc = "done"
                     /\ req[r].resp = InvalidKeyReply
                     /\ req[r].checked = [i \in 1..Len(rows) |-> rows[i].user_id]

\* C11: when the presented key verifies against a fetched candidate,
\* get_current_user returns that account even if the commit of last_login
\* fails; the request never ends with a 401 or a 500 instead.
C11_LastLoginFailureStillAuthenticates ==
    \A r \in Reqs :
        ( /\ AuthEnded(r)
          /\ req[r].fetched
          /\ FirstVerifying(req[r].api_key, req[r].users) # 0 )
        => /\ Returned(r)
           /\ req[r].user.user_id =
                 req[r].users[FirstVerifying(req[r].api_key,
                                             req[r].users)].user_id
           /\ req[r].resp.status \notin {401, 500}

\* the n-th credential: the hash and the salt one register or one
\* regenerate-key wrote together
PairOf(n) ==
    [key_hash |-> <<"pbkdf2", generate_api_key(n), generate_salt(n)>>,
     salt |-> generate_salt(n)]

\* C12: every candidate row an authenticate has fetched carries a hash and a
\* salt that one committed register or regenerate-key of that account wrote
\* together before the fetch, however the requests interleave.
C12_FetchedPairWrittenTogether ==
    \A r \in Reqs :
        (req[r].kind \in AuthKinds /\ req[r].fetched) =>
            \A i \in 1..Len(req[r].users) :
                LET row == req[r].users[i]
                IN  \E j \in 1..req[r].fetch_ver, n \in 1..ngen :
                        /\ history[j].user_id = row.user_id
                        /\ history[j].api_key = generate_api_key(n)
                        /\ row.api_key_hash = PairOf(n).key_hash
                        /\ row.api_key_salt = PairOf(n).salt

\* an authenticate holds the row it fetched while a regenerate-key of the
\* same account has committed another credential since
C12_Witness ==
    \E r \in Reqs :
        /\ req[r].kind \in AuthKinds
        /\ req[r].pc = "scan"
        /\ \E i \in 1..Len(req[r].users) :
              LET row == req[r].users[i]
              IN  /\ users[row.user_id].api_key_hash # row.api_key_hash
                  /\ users[row.user_id].api_key_salt # row.api_key_salt
                  /\ \E j \in (req[r].fetch_ver + 1)..Len(history) :
                        /\ history[j].user_id = row.user_id
                        /\ history[j].op = "regen"

\* C13: an authenticate accepts a key only if, at its candidate fetch, the
\* key was the committed credential of the account (so a replaced key only
\* when the fetch precedes the commit of the new hash, a new registration's
\* key only when the fetch follows the registration commit); an authenticate
\* that fetches after a regenerate-key has committed answers 401 to the
\* replaced key.
C13_AcceptedKeyWasCurrentAtFetch ==
    \A r \in Reqs :
        AuthEnded(r) =>
            /\ Returned(r) =>
                 IsCurrentKey(req[r].api_key, req[r].user.user_id,
                              req[r].fetch_ver)
            /\ \A u \in UserIds :
                 IsPreviousKey(req[r].api_key, u, req[r].fetch_ver) =>
                    /\ ~Returned(r)
                    /\ req[r].resp.status = 401

\* one authenticate was accepted with a key that a regenerate-key has
\* replaced since its fetch, another is refused with that key after it
C13_Witness ==
    \E r, q \in Reqs, u \in UserIds :
        /\ Returned(r)
        /\ req[r].user.user_id = u
        /\ ~IsPreviousKey(req[r].api_key, u, req[r].fetch_ver)
        /\ IsPreviousKey(req[r].api_key, u, Len(history))
        /\ AuthEnded(q)
        /\ req[q].api_key = req[r].api_key
        /\ IsPreviousKey(req[q].api_key, u, req[q].fetch_ver)
        /\ req[q].resp.status = 401

\* C14: a step of get_current_user that ends without returning a user changes
\* no user record; a step that returns a user changes at most last_login of
\* the returned account.
C14_AuthenticateWritesOnlyLastLogin ==
    [][ \A r \in Reqs :
          ( /\ req'[r].kind \in AuthKinds
            /\ req[r].pc \in {"idle", "scan"}
            /\ req'[r] # req[r] )
          => IF req'[r].user.user_id # 0
             THEN \A u \in UserIds : \A f \in DOMAIN users[u] :
                     users'[u][f] # users[u][f] =>
                        /\ u = req'[r].user.user_id
                        /\ f = "last_login"
             ELSE users' = users
      ]_vars

\* an authenticate has returned and stamped last_login of an account whose
\* credential a regenerate-key replaced between its fetch and its commit
C14_Witness ==
    \E r \in Reqs :
        /\ Returned(r)
        /\ users[req[r].user.user_id].last_login # NoTime
        /\ users[req[r].user.user_id].api_key_hash # req[r].user.api_key_hash
        /\ IsPreviousKey(req[r].api_key, req[r].user.user_id, Len(history))
        /\ ~IsPreviousKey(req[r].api_key, req[r].user.user_id,
                          req[r].fetch_ver)

UrlSafeAlphabet ==
    {"A","B","C","D","E","F","G","H","I","J","K","L","M","N","O","P","Q",
     "R","S","T","U","V","W","X","Y","Z"}
    \cup {"a","b","c","d","e","f","g","h","i","j","k","l","m","n","o","p",
          "q","r","s","t","u","v","w","x","y","z"}
    \cup {"0","1","2","3","4","5","6","7","8","9"} \cup {"-", "_"}

WellFormed(k) ==
    /\ k # <<>>
    /\ Len(k) = 32
    /\ \A i \in 1..Len(k) : k[i] \in UrlSafeAlphabet

\* C16: is_valid_api_key_format(key) is true exactly when key is non-empty,
\* 32 characters long and made of A-Z a-z 0-9 - _ only; every key that
\* generate_api_key or generate_api_key_with_hash produces is of that form
\* and passes the check.
C16_FormatExactly32UrlSafe ==
    /\ (call.fn = "format" /\ call.pc = "returned") =>
          (call.result <=> WellFormed(call.api_key))
    /\ (call.fn \in {"generate", "generate_with_hash"}
            /\ call.pc \in {"generated", "returned"}) =>
          WellFormed(call.api_key)
    /\ (call.fn \in {"generate", "generate_with_hash"}
            /\ call.pc = "returned") => call.result

\* a generated key that starts with "-" has passed the check
C16_Witness ==
    /\ call.fn = "generate_with_hash"
    /\ call.pc = "returned"
    /\ call.result
    /\ call.api_key[1] = "-"

\* every key the random source has handed out
IssuedKeys == {generate_api_key(n) : n \in 1..ngen}

\* C17: no field of a stored user record ever holds a raw API key; a response
\* carries a key only in the step that generated that key (a register
\* answering 201 or a regenerate-key answering 200), and the record then
\* holds its hash and salt; no other response carries a key.
C17_RawKeyShownOnceNeverStored ==
    [][ /\ \A u \in UserIds :
             /\ \A f \in {"username", "email", "api_key_salt"} :
                   users'[u][f] \notin {generate_api_key(n) : n \in 1..ngen'}
             /\ \/ users'[u].api_key_hash = NoHash
                \/ \E n \in 1..ngen' :
                      users'[u].api_key_hash = PairOf(n).key_hash
        /\ \A r \in Reqs :
             (req'[r].resp.api_key # NoKey /\ req'[r].resp # req[r].resp) =>
                /\ req[r].kind \in {"register", "regen"}
                /\ req'[r].resp.status \in {200, 201}
                /\ ngen' = ngen + 1
                /\ req'[r].resp.api_key = generate_api_key(ngen')
                /\ req'[r].resp.api_key \notin IssuedKeys
                /\ users'[req'[r].resp.user_id].api_key_hash
                      = PairOf(ngen').key_hash
                /\ users'[req'[r].resp.user_id].api_key_salt
                      = PairOf(ngen').salt
      ]_vars

\* /auth/users/me has answered 200 without a key for the key that the
\* register in the other slot has just returned
C17_Witness ==
    \E r, q \in Reqs :
        /\ req[r].kind = "me"
        /\ req[r].pc = "done"
        /\ req[r].resp.status = 200
        /\ req[r].resp.api_key = NoKey
        /\ req[q].kind = "register"
        /\ req[q].resp.api_key = req[r].api_key

\* the endpoints the API documents as protected by a key
ProtectedKinds ==
    {"create_device", "update_device", "delete_device", "create_metric",
     "me", "regen"}

\* request r carries a value neither in X-API-Key nor as bearer credential
NoCredentials(q) ==
    /\ ~q.x_api_key.present \/ q.x_api_key.val = <<>>
    /\ ~q.authorization.present \/ q.authorization.val = <<>>

PresentsValidKey(q) ==
    \E u \in UserIds :
        /\ users[u].is_active
        /\ users[u].is_registered
        /\ \/ /\ q.x_api_key.present
              /\ users[u].api_key_hash = <<"pbkdf2", q.x_api_key.val,
                                           users[u].api_key_salt>>
           \/ /\ q.authorization.present
              /\ users[u].api_key_hash = <<"pbkdf2", q.authorization.val,
                                           users[u].api_key_salt>>

\* C19: a GET /devices or GET /devices/{device_id} that presents no valid
\* key is answered without device data.
C19_ReadingDevicesNeedsKey ==
    \A r \in Reqs :
        ( /\ req[r].kind \in {"get_device", "get_devices"}
          /\ req[r].pc = "done"
          /\ ~PresentsValidKey(req[r]) )
        => /\ req[r].resp.device = NoDeviceRead
           /\ req[r].resp.data = <<>>

\* the row of a device id in a set of device rows, NoDevice when none
Stored(rows, device_id) ==
    IF \E d \in rows : d.device_id = device_id
    THEN CHOOSE d \in rows : d.device_id = device_id
    ELSE NoDevice

\* C20: a create that is given a comment answers 201 with that comment and
\* stores it; an update that is given a comment answers with it and stores
\* it; an update without the comment field leaves the stored comment as it
\* was; every GET of a device answers with the stored comment.
C20_CommentRoundTrips ==
    [][ \A r \in Reqs :
          /\ ( /\ req[r].pc = "create"
               /\ req'[r].resp.status = 201
               /\ req[r].body.comment.set )
             => /\ req'[r].resp.device.comment = req[r].body.comment.val
                /\ Stored(devices', req'[r].resp.device.device_id).comment
                      = req[r].body.comment.val
          /\ ( /\ req[r].pc = "update"
               /\ req'[r].resp.status = 200 )
             => IF req[r].body.comment.set
                THEN /\ req'[r].resp.device.comment = req[r].body.comment.val
                     /\ Stored(devices', req[r].device_id).comment
                           = req[r].body.comment.val
                ELSE Stored(devices', req[r].device_id).comment
                        = Stored(devices, req[r].device_id).comment
          /\ ( /\ req[r].pc = "endpoint"
               /\ req[r].kind = "get_device"
               /\ req'[r].resp.status = 200 )
             => req'[r].resp.device.comment = Stored(devices, req[r].device_id).comment
      ]_vars

\* a create or an update of request r is about to end while another stored
\* device holds the name it asks for
NameHeldByAnother(q) ==
    /\ q.body.name.set
    /\ q.body.name.val # NoName
    /\ \/ /\ q.kind = "create_device"
          /\ \E d \in devices : d.name = q.body.name.val
       \/ /\ q.kind = "update_device"
          /\ \E d \in devices : d.device_id = q.device_id
          /\ \E d \in devices : /\ d.device_id # q.device_id
                                /\ d.name = q.body.name.val

\* C21: under every interleaving of authenticated creates and updates no
\* two stored devices have the same name, and a create or a rename that
\* asks for a name another stored device holds ends with 409 and leaves
\* the device, tag and link tables as they were.
C21_UniqueNamesOr409 ==
    /\ [](\A d1, d2 \in devices :
             (d1.name = d2.name /\ d1.name # NoName) => d1 = d2)
    /\ [][ \A r \in Reqs :
             ( /\ req[r].kind \in {"create_device", "update_device"}
               /\ req[r].pc \in {"endpoint", "create", "update"}
               /\ req'[r].pc = "done"
               /\ NameHeldByAnother(req[r]) )
             => /\ req'[r].resp.status = 409
                /\ UNCHANGED <<devices, tags, links>>
       ]_vars

\* the tag names the links of a device lead to, in given tables
LinkedNames(tag_rows, link_rows, device_id) ==
    {t.tag : t \in {t \in tag_rows :
                      [device_id |-> device_id, tag_id |-> t.id] \in link_rows}}

\* the value a field has after an update that may or may not provide it
Provided(field, old) == IF field.set THEN field.val ELSE old

\* C22: an update answered 200 sets exactly the fields the request provides
\* and leaves the other fields of the device, every other device and the
\* links of every other device as they were; without tags the links of the
\* device stay, with tags the device is linked afterwards to exactly the
\* tags named, one link for each name, each to a tag of category "device".
C22_UpdateChangesOnlyProvided ==
    [][ \A r \in Reqs :
          ( /\ req[r].pc = "update"
            /\ req'[r].resp.status = 200 )
          => LET id == req[r].device_id
                 body == req[r].body
                 old == Stored(devices, id)
                 new == Stored(devices', id)
                 mine(link_rows) == {l \in link_rows : l.device_id = id}
             IN  /\ old # NoDevice
                 /\ new = [device_id |-> id,
                           created_at |-> old.created_at,
                           name |-> Provided(body.name, old.name),
                           latitude |-> Provided(body.latitude, old.latitude),
                           comment |-> Provided(body.comment, old.comment)]
                 /\ devices' \ {new} = devices \ {old}
                 /\ links' \ mine(links') = links \ mine(links)
                 /\ IF ~body.tags.set
                    THEN mine(links') = mine(links)
                    ELSE /\ LinkedNames(tags', links', id) = Range(body.tags.val)
                         /\ Cardinality(mine(links'))
                               = Cardinality(Range(body.tags.val))
                         /\ \A l \in mine(links') :
                               \E t \in tags' : /\ t.id = l.tag_id
                                                /\ t.category = "device"
      ]_vars

\* a device that was created with the tag t1 has been given the tag list
\* t1, t2 and a latitude by an update while another device is stored
C22_Witness ==
    \E r \in Reqs :
        /\ req[r].kind = "update_device"
        /\ req[r].pc = "done"
        /\ req[r].resp.status = 200
        /\ req[r].body.tags.set
        /\ req[r].body.tags.val = <<T1, T2>>
        /\ LinkedNames(tags, links, req[r].device_id) = {T1, T2}
        /\ Stored(devices, req[r].device_id).name = N2
        /\ Cardinality(devices) > 1

\* no row of the device table has this id
Missing(rows, device_id) == \A d \in rows : d.device_id # device_id

C24_DevicePageAndMetadata ==
    \A r \in Reqs :
        ( /\ req[r].kind = "get_devices"
          /\ req[r].pc = "done"
          /\ req[r].resp.status = 200 )
        => LET L == req[r].query.limit
               P == req[r].query.page
               found == Filtered(req[r].query)
               n == Cardinality(found)
               data == req[r].resp.data
               pagination == req[r].resp.pagination
           IN  /\ L >= 1 /\ L <= 200 /\ P >= 1
               /\ Len(data) <= L
               /\ Len(data) = Cardinality({i \in 1..n : /\ (P - 1) * L < i
                                                        /\ i <= P * L})
               /\ \E o \in NewestFirst(found) :
                     \A i \in DOMAIN data :
                        /\ data[i].device_id = o[(P - 1) * L + i].device_id
                        /\ data[i].name = o[(P - 1) * L + i].name
               /\ pagination.total_count = n
               /\ pagination.total_pages * L >= n
               /\ (pagination.total_pages - 1) * L < n
               /\ pagination.has_next = (P < pagination.total_pages)
               /\ pagination.has_prev = (P > 1)
               /\ pagination.page = P
               /\ pagination.limit = L

\* page two of one row each, of two stored devices: one device, a previous
\* page and no next page
C24_Witness ==
    \E r \in Reqs :
        /\ req[r].kind = "get_devices"
        /\ req[r].pc = "done"
        /\ req[r].resp.status = 200
        /\ req[r].query.limit = 1
        /\ req[r].query.page = 2
        /\ Len(req[r].resp.data) = 1
        /\ req[r].resp.pagination.total_count = 2
        /\ req[r].resp.pagination.total_pages = 2
        /\ req[r].resp.pagination.has_prev
        /\ ~req[r].resp.pagination.has_next

\* C25: a POST /metrics for an unknown device name is answered 404 and
\* stores nothing; one that is answered 500 after the device was found
\* leaves no metric and no message of the request stored; one that is
\* answered 200 stores one metric of the device and one message for each
\* message of the request, each with the id of that metric and of the
\* device.
C25_MetricAllOrNothing ==
    [][ \A r \in Reqs :
          /\ ( /\ req[r].pc = "endpoint"
               /\ req[r].kind = "create_metric"
               /\ req[r].body.device_name.set
               /\ \A d \in devices : d.name # req[r].body.device_name.val )
             => /\ req'[r].resp.status = 404
                /\ UNCHANGED <<metrics, messages>>
          /\ ( /\ req[r].pc = "metric"
               /\ req'[r].resp.status = 500 )
             => UNCHANGED <<metrics, messages>>
          /\ ( /\ req[r].pc = "metric"
               /\ req'[r].resp.status = 200 )
             => LET id == req'[r].resp.metric.id
                    given == IF req[r].body.sensor_messages.set
                             THEN req[r].body.sensor_messages.val ELSE <<>>
                IN  /\ metrics' \ metrics
                          = {[id |-> id, device_id |-> req[r].device.device_id,
                              timestamp_server |->
                                  req[r].body.timestamp_server.val]}
                    /\ messages \subseteq messages'
                    /\ Cardinality(messages' \ messages) = Len(given)
                    /\ \A m \in messages' \ messages :
                          /\ m.sensor_metric_id = id
                          /\ m.device_id = req[r].device.device_id
      ]_vars

\* the positions of history at which a register of account u committed,
\* each of them answered 201 with the key written there
RegisteredAt(u) ==
    {i \in DOMAIN history : /\ history[i].user_id = u
                            /\ history[i].op = "register"}

\* C26: under every interleaving at most one register of an account is
\* answered 201, and the key of every committed register or regenerate-key
\* verifies against the stored hash and salt of the account as long as no
\* regenerate-key of the account has committed after it.
C26_OneRegistrationKeyStaysValid ==
    /\ \A u \in UserIds : Cardinality(RegisteredAt(u)) <= 1
    /\ \A i \in DOMAIN history :
          (\A j \in DOMAIN history :
              (j > i /\ history[j].user_id = history[i].user_id)
                 => history[j].op # "regen")
          => LET row == users[history[i].user_id]
             IN  row.api_key_hash
                    = <<"pbkdf2", history[i].api_key, row.api_key_salt>>

\* the position of the last committed credential write of account u, 0 if
\* there is none
LastWrite(u) ==
    LET W == {i \in DOMAIN history : history[i].user_id = u}
    IN  IF W = {} THEN 0 ELSE CHOOSE i \in W : \A j \in W : j <= i

\* C27: the step of an authenticate that returns a user, and with it the
\* commit of last_login, leaves api_key_hash and api_key_salt of every
\* account as they are, also when the row it fetched is older than the
\* stored one; and the stored hash and salt of an account are always those
\* of the last committed register or regenerate-key of that account.
C27_LastLoginKeepsCredential ==
    /\ [][ \A r \in Reqs :
             ( /\ req[r].pc = "scan"
               /\ req'[r].user.user_id # 0 )
             => \A u \in UserIds :
                   /\ users'[u].api_key_hash = users[u].api_key_hash
                   /\ users'[u].api_key_salt = users[u].api_key_salt
         ]_vars
    /\ [](\A u \in UserIds :
             IF LastWrite(u) = 0
             THEN users[u].api_key_hash = NoHash /\ users[u].api_key_salt = NoSalt
             ELSE users[u].api_key_hash
                     = <<"pbkdf2", history[LastWrite(u)].api_key,
                         users[u].api_key_salt>>)

\* an authenticate fetched the row of an account, a regenerate-key of the
\* account committed, then the authenticate committed last_login and
\* returned the account; the stored hash is the one of the regenerate-key
C27_Witness ==
    \E r \in Reqs :
        /\ req[r].kind = "me"
        /\ req[r].pc = "done"
        /\ req[r].resp.status = 200
        /\ LET u == req[r].user.user_id
           IN  /\ req[r].fetch_ver < LastWrite(u)
               /\ LastWrite(u) <= req[r].login_ver
               /\ history[LastWrite(u)].op = "regen"
               /\ users[u].api_key_hash # req[r].user.api_key_hash
               /\ users[u].last_login # NoTime

\* the outcome of the authenticate of request q is the one of the key k
\* alone: k is the key tried; a malformed k, or one that verifies against
\* no fetched row, ends with 401 and no user; a returned user is a fetched
\* row that verifies k
DecidedBy(q, k) ==
    /\ q.api_key = k
    /\ ( \/ Malformed(k)
         \/ \A i \in DOMAIN q.users :
               q.users[i].api_key_hash
                  # <<"pbkdf2", k, q.users[i].api_key_salt>> )
       => (q.pc = "done" /\ q.resp.status = 401 /\ q.user.user_id = 0)
    /\ Malformed(k) => (~q.fetched /\ q.checked = <<>>)
    /\ q.user.user_id # 0
       => \E i \in DOMAIN q.users :
             /\ q.users[i].user_id = q.user.user_id
             /\ q.users[i].api_key_hash
                   = <<"pbkdf2", k, q.users[i].api_key_salt>>

\* C28: with a non-empty X-API-Key the authenticate is decided by that
\* value alone, whatever the Authorization header carries: a malformed or
\* unmatched X-API-Key ends with 401 also next to a valid bearer key; with
\* an empty X-API-Key and a non-empty bearer credential it is decided by
\* the bearer credential.
C28_HeaderKeyAloneDecides ==
    \A r \in Reqs :
        (req[r].kind \in AuthKinds /\ req[r].pc \in {"regen", "done"}) =>
            /\ (req[r].x_api_key.present /\ req[r].x_api_key.val # <<>>)
               => DecidedBy(req[r], req[r].x_api_key.val)
            /\ ( /\ req[r].x_api_key.present
                 /\ req[r].x_api_key.val = <<>>
                 /\ req[r].authorization.present
                 /\ req[r].authorization.val # <<>> )
               => DecidedBy(req[r], req[r].authorization.val)

\* an empty X-API-Key next to the bearer key of a registered account: the
\* account is returned
C28_Witness ==
    \E r \in Reqs :
        /\ req[r].kind = "me"
        /\ req[r].pc = "done"
        /\ req[r].x_api_key = Hdr(<<>>)
        /\ req[r].authorization.present
        /\ req[r].resp.status = 200
        /\ req[r].user.api_key_hash
              = <<"pbkdf2", req[r].authorization.val, req[r].user.api_key_salt>>

\* C29: a create_device request that ends with another status than 201
\* leaves the device, tag and link tables as they were; one that ends with
\* 201 has stored the device with one link for each tag name of the
\* request, each to a tag of category "device", and no other link.
C29_CreateAllOrNothing ==
    [][ \A r \in Reqs :
          ( /\ req[r].kind = "create_device"
            /\ req[r].pc \in {"endpoint", "create"}
            /\ req'[r].pc = "done" )
          => IF req'[r].resp.status # 201
             THEN UNCHANGED <<devices, tags, links>>
             ELSE LET id == req'[r].resp.device.device_id
                      names == IF req[r].body.tags.set
                               THEN Range(req[r].body.tags.val) ELSE {}
                      mine == {l \in links' : l.device_id = id}
                  IN  /\ Missing(devices, id)
                      /\ ~Missing(devices', id)
                      /\ LinkedNames(tags', links', id) = names
                      /\ Cardinality(mine) = Cardinality(names)
                      /\ \A l \in mine :
                            \E t \in tags' : /\ t.id = l.tag_id
                                             /\ t.category = "device"
                      /\ links' \ mine = links
      ]_vars

====
